---- MODULE Spec2Model ----
(***************************************************************************)
(* Verification model of the DataCollections harvest pipeline:             *)
(*   - ResearchMapIntegratedScraper (researchmap_integrated_scraper.py):   *)
(*     page discovery, listing iteration, per-researcher processing,       *)
(*     project extraction, the competitive-funding classifier, the         *)
(*     period / keyword cascades and the summary;                          *)
(*   - VCPortfolioWithFunding (integrated_vc_database.py): name            *)
(*     normalisation and fuzzy matching.                                   *)
(*                                                                         *)
(* Text is a sequence of characters.  A character is a one-character       *)
(* string for ASCII ("A", " ", ".") and "uXXXX" (the code point) for       *)
(* everything else: "u682A" is the character 株.  Every text constant is    *)
(* followed by the literal it encodes.                                     *)
(***************************************************************************)
EXTENDS Integers, Sequences, FiniteSets, TLC

VARIABLES
    pc,        \* position of the running operation
    call,      \* arguments of the operation
    ret,       \* its return value(s)
    web,       \* what the site serves: the documents behind the URLs
    requests,  \* every HTTP request issued so far, in order
    log,       \* logger.error / logger.warning records, in order
    total_pages,                 \* get_researchers_from_all_pages: total_pages
    page,                        \* get_researchers_from_all_pages: page
    all_researchers,             \* the accumulated stubs
    researcher_index,            \* scrape_all_researchers_and_projects: i
    researchers_with_projects,   \* the records built so far
    total_competitive_projects   \* running count of competitive projects

crawl_vars == <<web, requests, log, total_pages, page, all_researchers,
                researcher_index, researchers_with_projects,
                total_competitive_projects>>

vars == <<pc, call, ret, crawl_vars>>

\* The state of the crawl variables while a pure function is exercised.
NoCrawl ==
    /\ web = <<>>
    /\ requests = <<>>
    /\ log = <<>>
    /\ total_pages = 0
    /\ page = 0
    /\ all_researchers = <<>>
    /\ researcher_index = 0
    /\ researchers_with_projects = <<>>
    /\ total_competitive_projects = 0

(***************************************************************************)
(* Python values                                                           *)
(***************************************************************************)
\* None, as a value no text equals (no character is spelled "None").
None == <<"None">>

\* Python truthiness of a str-or-None value: `if x` / `if not x`.
Truthy(x) == x # None /\ x # <<>>

(***************************************************************************)
(* Characters                                                              *)
(***************************************************************************)
UpperCase == <<"A", "B", "C", "D", "E", "F", "G", "H", "I", "J", "K", "L", "M",
               "N", "O", "P", "Q", "R", "S", "T", "U", "V", "W", "X", "Y", "Z">>
LowerCase == <<"a", "b", "c", "d", "e", "f", "g", "h", "i", "j", "k", "l", "m",
               "n", "o", "p", "q", "r", "s", "t", "u", "v", "w", "x", "y", "z">>

\* \s of the re module on str patterns (ASCII whitespace and U+3000).
Whitespace == {" ", "\n", "\t", "u3000"}
\* \d restricted to the digits the inputs use.
Digits == {"0", "1", "2", "3", "4", "5", "6", "7", "8", "9"}

lower_char(c) ==
    IF \E i \in 1..Len(UpperCase) : UpperCase[i] = c
    THEN LowerCase[CHOOSE i \in 1..Len(UpperCase) : UpperCase[i] = c]
    ELSE c

\* str.lower()
lower(s) == [i \in 1..Len(s) |-> lower_char(s[i])]

RECURSIVE lstrip(_)
lstrip(s) == IF s # <<>> /\ Head(s) \in Whitespace THEN lstrip(Tail(s)) ELSE s

RECURSIVE rstrip(_)
rstrip(s) ==
    IF s # <<>> /\ s[Len(s)] \in Whitespace THEN rstrip(SubSeq(s, 1, Len(s) - 1)) ELSE s

\* str.strip()
strip(s) == lstrip(rstrip(s))

\* `needle in haystack` on str
Contains(haystack, needle) ==
    \E i \in 1..(Len(haystack) - Len(needle) + 1) :
        SubSeq(haystack, i, i + Len(needle) - 1) = needle

(***************************************************************************)
(* Regular expressions (re.search / re.sub) for patterns that are a        *)
(* concatenation of quantified character classes, all quantifiers greedy.  *)
(* An item matches between min and max characters of its class (`many`:    *)
(* no upper limit); `neg` negates the class.                               *)
(***************************************************************************)
Lit(c) == [cls |-> {c}, neg |-> FALSE, min |-> 1, max |-> 1, many |-> FALSE]
Opt(c) == [cls |-> {c}, neg |-> FALSE, min |-> 0, max |-> 1, many |-> FALSE]
OneOf(S) == [cls |-> S, neg |-> FALSE, min |-> 1, max |-> 1, many |-> FALSE]
Star(S) == [cls |-> S, neg |-> FALSE, min |-> 0, max |-> 0, many |-> TRUE]
Plus(S) == [cls |-> S, neg |-> FALSE, min |-> 1, max |-> 1, many |-> TRUE]
NotStar(S) == [cls |-> S, neg |-> TRUE, min |-> 0, max |-> 0, many |-> TRUE]
NotPlus(S) == [cls |-> S, neg |-> TRUE, min |-> 1, max |-> 1, many |-> TRUE]
Rep(S, lo, hi) == [cls |-> S, neg |-> FALSE, min |-> lo, max |-> hi, many |-> FALSE]
Word(w) == [i \in 1..Len(w) |-> Lit(w[i])]

InClass(it, c) == (c \in it.cls) # it.neg

\* The longest run of characters of the item's class starting at s[i],
\* cut at the item's max.
RECURSIVE RunLen(_, _, _, _)
RunLen(it, s, i, n) ==
    IF i + n <= Len(s) /\ (it.many \/ n < it.max) /\ InClass(it, s[i + n])
    THEN RunLen(it, s, i, n + 1)
    ELSE n

\* Backtracking match of items[k..] at position i.  The result is <<>> when
\* there is no match, and otherwise the start position of every item from k
\* on followed by the position after the match.
RECURSIVE MatchFrom(_, _, _, _)
RECURSIVE TryCount(_, _, _, _, _)
MatchFrom(items, k, s, i) ==
    IF k > Len(items) THEN <<i>>
    ELSE LET run == RunLen(items[k], s, i, 0)
         IN  IF run < items[k].min THEN <<>> ELSE TryCount(items, k, s, i, run)

TryCount(items, k, s, i, n) ==
    LET rest == MatchFrom(items, k + 1, s, i + n)
    IN  IF rest # <<>> THEN <<i>> \o rest
        ELSE IF n > items[k].min THEN TryCount(items, k, s, i, n - 1)
        ELSE <<>>

\* re.search from position `from`: the leftmost match, <<>> when none.
RECURSIVE SearchFrom(_, _, _)
SearchFrom(items, s, from) ==
    IF from > Len(s) + 1 THEN <<>>
    ELSE LET m == MatchFrom(items, 1, s, from)
         IN  IF m # <<>> THEN m ELSE SearchFrom(items, s, from + 1)

re_search(items, s) == SearchFrom(items, s, 1)

\* match.group(0) and the group spanning items g1..g2 of a match m
group0(s, m) == SubSeq(s, m[1], m[Len(m)] - 1)
group(s, m, g1, g2) == SubSeq(s, m[g1], m[g2 + 1] - 1)

\* re.sub(pattern, repl, s) for a pattern that matches no empty string:
\* every non-overlapping match, leftmost first, is replaced by repl.
RECURSIVE SubFrom(_, _, _, _)
SubFrom(items, repl, s, from) ==
    LET m == SearchFrom(items, s, from)
    IN  IF m = <<>> THEN SubSeq(s, from, Len(s))
        ELSE SubSeq(s, from, m[1] - 1) \o repl \o SubFrom(items, repl, s, m[Len(m)])

re_sub(items, repl, s) == SubFrom(items, repl, s, 1)

(***************************************************************************)
(* VCPortfolioWithFunding.normalize_vc_name                                *)
(***************************************************************************)
Kabushikigaisha == <<"u682A", "u5F0F", "u4F1A", "u793E">>  \* 株式会社
Yugengaisha     == <<"u6709", "u9650", "u4F1A", "u793E">>  \* 有限会社
Godogaisha      == <<"u5408", "u540C", "u4F1A", "u793E">>  \* 合同会社

\* r'\s*\([^)]*\)'
ParenPattern == <<Star(Whitespace), Lit("("), NotStar({")"}), Lit(")")>>

\* r'\s*Inc\.?' and its siblings: optional leading whitespace, the token,
\* and (where the pattern has \.?) an optional full stop.
SuffixDot(w) == <<Star(Whitespace)>> \o Word(w) \o <<Opt(".")>>
SuffixPlain(w) == <<Star(Whitespace)>> \o Word(w)

\* The suffix substitutions in the order the code applies them.
SuffixPatterns == <<
    SuffixDot(<<"I", "n", "c">>),        \* r'\s*Inc\.?'
    SuffixPlain(<<"L", "L", "C">>),      \* r'\s*LLC'
    SuffixDot(<<"L", "t", "d">>),        \* r'\s*Ltd\.?'
    SuffixDot(<<"C", "o">>),             \* r'\s*Co\.?'
    SuffixDot(<<"C", "o", "r", "p">>),   \* r'\s*Corp\.?'
    SuffixPlain(Kabushikigaisha),        \* r'\s*株式会社'
    SuffixPlain(Yugengaisha),            \* r'\s*有限会社'
    SuffixPlain(Godogaisha),             \* r'\s*合同会社'
    SuffixDot(<<"P", "T", "E">>),        \* r'\s*PTE\.?'
    SuffixDot(<<"L", "T", "D">>)         \* r'\s*LTD\.?'
>>

RECURSIVE ApplySubs(_, _, _)
ApplySubs(patterns, k, s) ==
    IF k > Len(patterns) THEN s
    ELSE ApplySubs(patterns, k + 1, re_sub(patterns[k], <<>>, s))

normalize_vc_name(vc_name) ==
    IF ~Truthy(vc_name) THEN <<>>
    ELSE LET stripped == strip(vc_name)
             noparen  == re_sub(ParenPattern, <<>>, stripped)
             nosuffix == ApplySubs(SuffixPatterns, 1, noparen)
         IN  lower(strip(re_sub(<<Plus(Whitespace)>>, <<" ">>, nosuffix)))

(***************************************************************************)
(* Inputs of the name normaliser: concatenations of at most MaxNameParts    *)
(* of the parts below.                                                     *)
(***************************************************************************)
MaxNameParts == 3

NameParts == {
    <<"A", "N", "R", "I">>,              \* ANRI
    <<" ">>,
    <<"I", "n", "c", ".">>,              \* Inc.
    <<"C", "o">>,                        \* Co
    <<"(", "V", "C", ")">>,              \* (VC)
    <<"u682A", "u5F0F">>,                \* 株式
    <<"u4F1A", "u793E">>,                \* 会社
    Kabushikigaisha
}

RECURSIVE Concats(_, _)
Concats(parts, n) ==
    IF n = 0 THEN {<<>>}
    ELSE LET shorter == Concats(parts, n - 1)
         IN  shorter \cup {p \o t : p \in parts, t \in shorter}

NameInputs == Concats(NameParts, MaxNameParts) \cup {None}

(***************************************************************************)
(* normalize_vc_name applied once and then again to its own result         *)
(***************************************************************************)
InitNormalize ==
    /\ pc = "normalize"
    /\ call \in [vc_name : NameInputs]
    /\ ret = <<>>
    /\ NoCrawl

Normalize ==
    /\ pc = "normalize"
    /\ ret' = <<normalize_vc_name(call.vc_name)>>
    /\ pc' = "renormalize"
    /\ UNCHANGED <<call, crawl_vars>>

Renormalize ==
    /\ pc = "renormalize"
    /\ ret' = Append(ret, normalize_vc_name(ret[1]))
    /\ pc' = "done"
    /\ UNCHANGED <<call, crawl_vars>>

NextNormalize == Normalize \/ Renormalize

SpecNormalize == InitNormalize /\ [][NextNormalize]_vars

\* C3: normalize is idempotent: normalizing a normalized name changes nothing.
C3_Idempotent == pc = "done" => ret[2] = ret[1]

(***************************************************************************)
(* VCPortfolioWithFunding.find_matching_vc                                 *)
(***************************************************************************)
\* A similarity score is the fraction num/den of two naturals; the code's
\* float comparisons are comparisons of these fractions.
Fraction(n, d) == [num |-> n, den |-> d]
Greater(a, b) == a.num * b.den > b.num * a.den

\* best_score = 0
ZeroScore == Fraction(0, 1)
\* the threshold 0.2 of `if best_score > 0.2`
ThresholdNum == 1
ThresholdDen == 5
Threshold == Fraction(ThresholdNum, ThresholdDen)

\* set(s) of a str
CharSet(s) == {s[i] : i \in 1..Len(s)}

\* len(set(a) & set(b)) / len(set(a) | set(b)); the division raises
\* ZeroDivisionError when both sets are empty.
Jaccard(a, b) ==
    Fraction(Cardinality(CharSet(a) \cap CharSet(b)),
             Cardinality(CharSet(a) \cup CharSet(b)))

\* `a in b or b in a`
PartialMatch(a, b) == Contains(b, a) \/ Contains(a, b)

\* What find_matching_vc gives back: a corpus entry, None, or an exception.
Returned(vc) == [exc |-> "", value |-> <<vc>>]
ReturnedNone == [exc |-> "", value |-> <<>>]
Raised(e) == [exc |-> e, value |-> <<>>]

\* if best_score > 0.2: return best_match / return None
AfterLoopAtLeast(best_match, best_score) ==
    IF ~Greater(Threshold, best_score) THEN [exc |-> "", value |-> best_match]
    ELSE ReturnedNone

AfterLoop(best_match, best_score) ==
    IF Greater(best_score, Threshold) THEN [exc |-> "", value |-> best_match]
    ELSE ReturnedNone

\* The for loop from entry k on; best_match is <<>> (None) or <<vc>>.
RECURSIVE MatchLoopEarlyPartial(_, _, _, _, _)
MatchLoopEarlyPartial(target, vc_list, k, best_match, best_score) ==
    IF k > Len(vc_list) THEN AfterLoop(best_match, best_score)
    ELSE LET vc == vc_list[k]
             normalized_list_name == normalize_vc_name(vc.vc_name)
         IN  IF target = normalized_list_name THEN Returned(vc)
             ELSE IF PartialMatch(target, normalized_list_name)
             THEN IF CharSet(target) \cup CharSet(normalized_list_name) = {}
                  THEN Raised("ZeroDivisionError")
                  ELSE LET score == Jaccard(target, normalized_list_name)
                       IN  IF Greater(score, Threshold) THEN Returned(vc)
                           ELSE MatchLoopEarlyPartial(target, vc_list, k + 1,
                                                      best_match, best_score)
             ELSE MatchLoopEarlyPartial(target, vc_list, k + 1, best_match, best_score)

RECURSIVE MatchLoop(_, _, _, _, _)
MatchLoop(target, vc_list, k, best_match, best_score) ==
    IF k > Len(vc_list) THEN AfterLoop(best_match, best_score)
    ELSE LET vc == vc_list[k]
             normalized_list_name == normalize_vc_name(vc.vc_name)
         IN  IF target = normalized_list_name THEN Returned(vc)
             ELSE IF PartialMatch(target, normalized_list_name)
             THEN IF CharSet(target) \cup CharSet(normalized_list_name) = {}
                  THEN Raised("ZeroDivisionError")
                  ELSE LET score == Jaccard(target, normalized_list_name)
                       IN  IF Greater(score, best_score)
                           THEN MatchLoop(target, vc_list, k + 1, <<vc>>, score)
                           ELSE MatchLoop(target, vc_list, k + 1, best_match, best_score)
             ELSE MatchLoop(target, vc_list, k + 1, best_match, best_score)

\* The for loop had it gone to the partial match without the test for the
\* exact match before it.
RECURSIVE MatchLoopWithoutExactMatch(_, _, _, _, _)
MatchLoopWithoutExactMatch(target, vc_list, k, best_match, best_score) ==
    IF k > Len(vc_list) THEN AfterLoop(best_match, best_score)
    ELSE LET vc == vc_list[k]
             normalized_list_name == normalize_vc_name(vc.vc_name)
         IN  IF PartialMatch(target, normalized_list_name)
             THEN IF CharSet(target) \cup CharSet(normalized_list_name) = {}
                  THEN Raised("ZeroDivisionError")
                  ELSE LET score == Jaccard(target, normalized_list_name)
                       IN  IF Greater(score, best_score)
                           THEN MatchLoopWithoutExactMatch(target, vc_list, k + 1,
                                                           <<vc>>, score)
                           ELSE MatchLoopWithoutExactMatch(target, vc_list, k + 1,
                                                           best_match, best_score)
             ELSE MatchLoopWithoutExactMatch(target, vc_list, k + 1,
                                             best_match, best_score)

find_matching_vc_without_exact_match(vc_name, vc_list) ==
    MatchLoopWithoutExactMatch(normalize_vc_name(vc_name), vc_list, 1, <<>>, ZeroScore)

find_matching_vc(vc_name, vc_list) ==
    MatchLoop(normalize_vc_name(vc_name), vc_list, 1, <<>>, ZeroScore)

(***************************************************************************)
(* Inputs of the matcher: a candidate and a corpus of at most MaxCorpus    *)
(* entries, all drawn from MatchNames.                                     *)
(***************************************************************************)
MaxCorpus == 2

AnriInc   == <<"A", "N", "R", "I", " ", "I", "n", "c", ".">>  \* ANRI Inc.
Anri      == <<"A", "N", "R", "I">>  \* ANRI
Unrelated == <<"T", "o", "t", "a", "l", "l", "y", " ", "U", "n", "r", "e", "l",
               "a", "t", "e", "d", " ", "C", "o", ".">>  \* Totally Unrelated Co.

MatchNames == {
    AnriInc, Anri, Unrelated,
    <<"A", "N">>,                                     \* AN
    <<"A">>,                                          \* A
    <<"A", "N", "R", "I", " ", "F", "u", "n", "d">>,  \* ANRI Fund
    <<"A", "N", "R", "I", "F">>,                      \* ANRIF
    <<"I", "n", "c", ".">>,                           \* Inc.
    <<>>                                              \* the empty name
}

Corpora ==
    UNION {[1..n -> [vc_name : MatchNames]] : n \in 0..MaxCorpus}

InitMatch ==
    /\ pc = "match"
    /\ call \in [vc_name : MatchNames, vc_list : Corpora]
    /\ ret = <<>>
    /\ NoCrawl

FindMatchingVC ==
    /\ pc = "match"
    /\ ret' = find_matching_vc(call.vc_name, call.vc_list)
    /\ pc' = "done"
    /\ UNCHANGED <<call, crawl_vars>>

NextMatch == FindMatchingVC

SpecMatch == InitMatch /\ [][NextMatch]_vars

\* The corpus positions whose normalized name equals the normalized candidate,
\* and those where one normalized name is a substring of the other.
ExactAt == {k \in 1..Len(call.vc_list) :
               normalize_vc_name(call.vc_list[k].vc_name) = normalize_vc_name(call.vc_name)}
PartialAt == {k \in 1..Len(call.vc_list) :
                 PartialMatch(normalize_vc_name(call.vc_name),
                              normalize_vc_name(call.vc_list[k].vc_name))}
ScoreAt(k) ==
    LET A == CharSet(normalize_vc_name(call.vc_name))
        B == CharSet(normalize_vc_name(call.vc_list[k].vc_name))
    IN  Fraction(Cardinality(A \cap B), Cardinality(A \cup B))

\* C7: when the corpus holds an entry whose normalized name equals the
\* normalized candidate, the first such entry is returned, whatever partial
\* matches precede it; match("ANRI Inc.", ["ANRI"]) returns "ANRI".
C7_ExactMatchWins ==
    pc = "done" =>
        /\ ExactAt # {} =>
              /\ ret.exc = ""
              /\ ret.value = <<call.vc_list[CHOOSE k \in ExactAt : \A j \in ExactAt : k <= j]>>
        /\ (call.vc_name = AnriInc /\ call.vc_list = <<[vc_name |-> Anri]>>)
              => ret = Returned([vc_name |-> Anri])

\* An exact match is returned although an earlier entry is a partial match
\* above the threshold.
C7_Witness ==
    /\ pc = "done"
    /\ Len(call.vc_list) = 2
    /\ ExactAt = {2}
    /\ 1 \in PartialAt
    /\ Greater(ScoreAt(1), Threshold)
    /\ ret = Returned(call.vc_list[2])

\* C8: with no normalized-equal entry, the result is a substring-related
\* entry of highest character-set Jaccard similarity when that similarity is
\* strictly above 0.2, and no-match in every other case;
\* match("Totally Unrelated Co.", ["ANRI"]) is no-match.
C8_BestPartialAboveThreshold ==
    (pc = "done" /\ ExactAt = {}) =>
        /\ ret.exc = ""
        /\ IF \E k \in PartialAt : Greater(ScoreAt(k), Threshold)
           THEN \E k \in PartialAt :
                   /\ ret.value = <<call.vc_list[k]>>
                   /\ \A j \in PartialAt : ~Greater(ScoreAt(j), ScoreAt(k))
           ELSE ret.value = <<>>
        /\ (call.vc_name = Unrelated /\ call.vc_list = <<[vc_name |-> Anri]>>)
              => ret = ReturnedNone

\* Two substring-related entries with different scores, the better one second.
C8_Witness ==
    /\ pc = "done"
    /\ ExactAt = {}
    /\ PartialAt = {1, 2}
    /\ Greater(ScoreAt(2), ScoreAt(1))
    /\ Greater(ScoreAt(1), Threshold)
    /\ ret = Returned(call.vc_list[2])

\* A substring-related entry whose similarity is exactly 0.2 is no match.
C8_WitnessAtThreshold ==
    /\ pc = "done"
    /\ ExactAt = {}
    /\ PartialAt # {}
    /\ \A k \in PartialAt : ScoreAt(k) = Threshold
    /\ ret = ReturnedNone

(***************************************************************************)
(* ResearchMapIntegratedScraper.is_competitive_funding_by_html_structure   *)
(***************************************************************************)
competitive_institutions == <<
    \* 日本学術振興会
    <<"u65E5", "u672C", "u5B66", "u8853", "u632F", "u8208", "u4F1A">>,
    \* JST
    <<"J", "S", "T">>,
    \* 国立研究開発法人科学技術振興機構
    <<"u56FD", "u7ACB", "u7814", "u7A76", "u958B", "u767A", "u6CD5", "u4EBA",
      "u79D1", "u5B66", "u6280", "u8853", "u632F", "u8208", "u6A5F", "u69CB">>,
    \* 文部科学省
    <<"u6587", "u90E8", "u79D1", "u5B66", "u7701">>,
    \* 厚生労働省
    <<"u539A", "u751F", "u52B4", "u50CD", "u7701">>,
    \* 経済産業省
    <<"u7D4C", "u6E08", "u7523", "u696D", "u7701">>,
    \* 国立研究開発法人新エネルギー・産業技術総合開発機構
    <<"u56FD", "u7ACB", "u7814", "u7A76", "u958B", "u767A", "u6CD5", "u4EBA",
      "u65B0", "u30A8", "u30CD", "u30EB", "u30AE", "u30FC", "u30FB", "u7523",
      "u696D", "u6280", "u8853", "u7DCF", "u5408", "u958B", "u767A", "u6A5F",
      "u69CB">>,
    \* NEDO
    <<"N", "E", "D", "O">>,
    \* 独立行政法人新エネルギー・産業技術総合開発機構
    <<"u72EC", "u7ACB", "u884C", "u653F", "u6CD5", "u4EBA", "u65B0", "u30A8",
      "u30CD", "u30EB", "u30AE", "u30FC", "u30FB", "u7523", "u696D", "u6280",
      "u8853", "u7DCF", "u5408", "u958B", "u767A", "u6A5F", "u69CB">>
>>

competitive_project_types == <<
    \* 科学研究費助成事業
    <<"u79D1", "u5B66", "u7814", "u7A76", "u8CBB", "u52A9", "u6210", "u4E8B",
      "u696D">>,
    \* 科学研究費
    <<"u79D1", "u5B66", "u7814", "u7A76", "u8CBB">>,
    \* 科学研究費補助金
    <<"u79D1", "u5B66", "u7814", "u7A76", "u8CBB", "u88DC", "u52A9", "u91D1">>,
    \* 基盤研究
    <<"u57FA", "u76E4", "u7814", "u7A76">>,
    \* 若手研究
    <<"u82E5", "u624B", "u7814", "u7A76">>,
    \* 萌芽研究
    <<"u840C", "u82BD", "u7814", "u7A76">>,
    \* 挑戦的研究
    <<"u6311", "u6226", "u7684", "u7814", "u7A76">>,
    \* 特別推進研究
    <<"u7279", "u5225", "u63A8", "u9032", "u7814", "u7A76">>,
    \* 新学術領域研究
    <<"u65B0", "u5B66", "u8853", "u9818", "u57DF", "u7814", "u7A76">>,
    \* 特別研究員
    <<"u7279", "u5225", "u7814", "u7A76", "u54E1">>,
    \* 挑戦的萌芽研究
    <<"u6311", "u6226", "u7684", "u840C", "u82BD", "u7814", "u7A76">>,
    \* 地熱発電技術研究開発
    <<"u5730", "u71B1", "u767A", "u96FB", "u6280", "u8853", "u7814", "u7A76",
      "u958B", "u767A">>,
    \* 新エネルギーベンチャー技術革新事業
    <<"u65B0", "u30A8", "u30CD", "u30EB", "u30AE", "u30FC", "u30D9", "u30F3",
      "u30C1", "u30E3", "u30FC", "u6280", "u8853", "u9769", "u65B0", "u4E8B",
      "u696D">>
>>

competitive_indicators == <<
    \* 科研費
    <<"u79D1", "u7814", "u8CBB">>,
    \* 科学研究費
    <<"u79D1", "u5B66", "u7814", "u7A76", "u8CBB">>,
    \* 基盤研究
    <<"u57FA", "u76E4", "u7814", "u7A76">>,
    \* 若手研究
    <<"u82E5", "u624B", "u7814", "u7A76">>,
    \* 萌芽研究
    <<"u840C", "u82BD", "u7814", "u7A76">>,
    \* 挑戦的研究
    <<"u6311", "u6226", "u7684", "u7814", "u7A76">>,
    \* 特別推進研究
    <<"u7279", "u5225", "u63A8", "u9032", "u7814", "u7A76">>,
    \* 新学術領域研究
    <<"u65B0", "u5B66", "u8853", "u9818", "u57DF", "u7814", "u7A76">>,
    \* 特別研究員
    <<"u7279", "u5225", "u7814", "u7A76", "u54E1">>,
    \* 助成事業
    <<"u52A9", "u6210", "u4E8B", "u696D">>,
    \* 補助金
    <<"u88DC", "u52A9", "u91D1">>,
    \* 挑戦的萌芽研究
    <<"u6311", "u6226", "u7684", "u840C", "u82BD", "u7814", "u7A76">>,
    \* 地熱発電技術研究開発
    <<"u5730", "u71B1", "u767A", "u96FB", "u6280", "u8853", "u7814", "u7A76",
      "u958B", "u767A">>,
    \* 新エネルギーベンチャー技術革新事業
    <<"u65B0", "u30A8", "u30CD", "u30EB", "u30AE", "u30FC", "u30D9", "u30F3",
      "u30C1", "u30E3", "u30FC", "u6280", "u8853", "u9769", "u65B0", "u4E8B",
      "u696D">>
>>

\* `x in list`
InList(x, list) == \E i \in 1..Len(list) : list[i] = x

\* if institution and institution in competitive_institutions
InstitutionGate(institution) ==
    Truthy(institution) /\ InList(institution, competitive_institutions)

\* if project_type: for competitive_type in ...: if competitive_type in project_type
ProjectTypeGate(project_type) ==
    /\ Truthy(project_type)
    /\ \E i \in 1..Len(competitive_project_types) :
           Contains(project_type, competitive_project_types[i])

\* The third check, had it compared the text with the indicator for
\* equality.
FundingSystemGateExact(funding_system) ==
    /\ Truthy(funding_system)
    /\ \E i \in 1..Len(competitive_indicators) :
           lower(funding_system) = competitive_indicators[i]
\* if funding_system: funding_lower = funding_system.lower();
\* for indicator in ...: if indicator in funding_lower
FundingSystemGate(funding_system) ==
    /\ Truthy(funding_system)
    /\ \E i \in 1..Len(competitive_indicators) :
           Contains(lower(funding_system), competitive_indicators[i])

\* The three checks in the order of the code; `gate` is the branch whose
\* log line is written before the return.
ClassifyFundingFirst(funding_system, institution, project_type) ==
    IF FundingSystemGate(funding_system)
    THEN [result |-> TRUE, gate |-> "funding_system"]
    ELSE IF ProjectTypeGate(project_type)
    THEN [result |-> TRUE, gate |-> "project_type"]
    ELSE IF InstitutionGate(institution)
    THEN [result |-> TRUE, gate |-> "institution"]
    ELSE [result |-> FALSE, gate |-> "none"]

Classify(funding_system, institution, project_type) ==
    IF InstitutionGate(institution)
    THEN [result |-> TRUE, gate |-> "institution"]
    ELSE IF ProjectTypeGate(project_type)
    THEN [result |-> TRUE, gate |-> "project_type"]
    ELSE IF FundingSystemGate(funding_system)
    THEN [result |-> TRUE, gate |-> "funding_system"]
    ELSE [result |-> FALSE, gate |-> "none"]

is_competitive_funding_by_html_structure(funding_system, institution, project_type) ==
    Classify(funding_system, institution, project_type).result

(***************************************************************************)
(* Inputs of the classifier                                                *)
(***************************************************************************)
JSPS ==  \* 日本学術振興会
    <<"u65E5", "u672C", "u5B66", "u8853", "u632F", "u8208", "u4F1A">>
KibanC ==  \* 基盤研究(C)
    <<"u57FA", "u76E4", "u7814", "u7A76", "(", "C", ")">>
WakateText ==  \* 本研究は若手研究の一環である
    <<"u672C", "u7814", "u7A76", "u306F", "u82E5", "u624B", "u7814", "u7A76",
      "u306E", "u4E00", "u74B0", "u3067", "u3042", "u308B">>
PrivateCompany ==  \* 私企業
    <<"u79C1", "u4F01", "u696D">>
InHouseResearch ==  \* 社内研究
    <<"u793E", "u5185", "u7814", "u7A76">>
OwnResearch ==  \* 自主研究
    <<"u81EA", "u4E3B", "u7814", "u7A76">>
SteelFund ==  \* 鉄鋼環境基金
    <<"u9244", "u92FC", "u74B0", "u5883", "u57FA", "u91D1">>
EnvResearch ==  \* 環境研究
    <<"u74B0", "u5883", "u7814", "u7A76">>
Kakenhi ==  \* 科研費
    <<"u79D1", "u7814", "u8CBB">>
JSPSGrant ==  \* 日本学術振興会 科学研究費助成事業
    <<"u65E5", "u672C", "u5B66", "u8853", "u632F", "u8208", "u4F1A", " ",
      "u79D1", "u5B66", "u7814", "u7A76", "u8CBB", "u52A9", "u6210", "u4E8B",
      "u696D">>

ClassifierInstitutions ==
    {None, <<>>, JSPS, PrivateCompany, SteelFund, JSPSGrant,
     <<"J", "S", "T">>, <<"j", "s", "t">>}

ClassifierProjectTypes ==
    {None, <<>>, KibanC, InHouseResearch, EnvResearch, competitive_project_types[1]}

ClassifierTexts ==
    {None, <<>>, WakateText, OwnResearch, Kakenhi, JSPS, JSPSGrant,
     <<"K", "A", "K", "E", "N", "H", "I">>}

InitClassify ==
    /\ pc = "classify"
    /\ call \in [funding_system : ClassifierTexts,
                 institution : ClassifierInstitutions,
                 project_type : ClassifierProjectTypes]
    /\ ret = <<>>
    /\ NoCrawl

ClassifyCall ==
    /\ pc = "classify"
    /\ ret' = Classify(call.funding_system, call.institution, call.project_type)
    /\ pc' = "done"
    /\ UNCHANGED <<call, crawl_vars>>

NextClassify == ClassifyCall

SpecClassify == InitClassify /\ [][NextClassify]_vars

\* The three gates as the specification words them.
Gate1Matches ==
    /\ call.institution \notin {None, <<>>}
    /\ call.institution \in {competitive_institutions[i] :
                                 i \in 1..Len(competitive_institutions)}
Gate2Matches ==
    /\ call.project_type \notin {None, <<>>}
    /\ \E i \in 1..Len(competitive_project_types) :
           Contains(call.project_type, competitive_project_types[i])
Gate3Matches ==
    /\ call.funding_system \notin {None, <<>>}
    /\ \E i \in 1..Len(competitive_indicators) :
           Contains(call.funding_system, competitive_indicators[i])

\* C2: the classifier tries the institution gate (exact equality), then the
\* project-type gate (substring), then the keyword gate on the funding text,
\* answers true at the first gate that matches and false exactly when none
\* does; the four examples of the specification come out as stated.
C2_ThreeGates ==
    pc = "done" =>
        /\ ret.result = (Gate1Matches \/ Gate2Matches \/ Gate3Matches)
        /\ ret.gate = IF Gate1Matches THEN "institution"
                      ELSE IF Gate2Matches THEN "project_type"
                      ELSE IF Gate3Matches THEN "funding_system"
                      ELSE "none"
        /\ (call.institution = JSPS /\ call.project_type = None
               /\ call.funding_system = None) => ret.result
        /\ (call.institution = None /\ call.project_type = KibanC
               /\ call.funding_system = None) => ret.result
        /\ (call.institution = None /\ call.project_type = None
               /\ call.funding_system = WakateText) => ret.result
        /\ (call.institution = PrivateCompany /\ call.project_type = InHouseResearch
               /\ call.funding_system = OwnResearch) => ~ret.result

\* Gates 2 and 3 both match and gate 1 does not: the answer comes from gate 2.
C2_Witness ==
    /\ pc = "done"
    /\ ~Gate1Matches /\ Gate2Matches /\ Gate3Matches
    /\ ret = [result |-> TRUE, gate |-> "project_type"]

(***************************************************************************)
(* DataExtractor.extract_period and DataExtractor.extract_keywords         *)
(***************************************************************************)
Nen == "u5E74"       \* 年
Gatsu == "u6708"     \* 月
Do == "u5EA6"        \* 度
WaveDash == "uFF5E"  \* ～
Kara == <<"u304B", "u3089">>    \* から
Heisei == <<"u5E73", "u6210">>  \* 平成
Reiwa == <<"u4EE4", "u548C">>   \* 令和

D4 == Rep(Digits, 4, 4)   \* \d{4}
D12 == Rep(Digits, 1, 2)  \* \d{1,2}
Ws == Star(Whitespace)    \* \s*

YearMonth == <<D4, Lit(Nen), D12, Lit(Gatsu)>>        \* \d{4}年\d{1,2}月
YearDot == <<D4, Lit("."), D12>>                      \* \d{4}\.\d{1,2}
FiscalYear == <<D4, Lit(Nen), Lit(Do)>>               \* \d{4}年度
EraYear(era) == Word(era) \o <<D12, Lit(Nen), Lit(Do)>>  \* 平成\d{1,2}年度

\* period_patterns, in list order; the capture group of each is the whole
\* pattern.
period_patterns == <<
    YearMonth \o <<Ws, Lit("-"), Ws>> \o YearMonth,       \* (\d{4}年\d{1,2}月\s*-\s*\d{4}年\d{1,2}月)
    YearMonth \o <<Ws, Lit(WaveDash), Ws>> \o YearMonth,  \* (\d{4}年\d{1,2}月\s*～\s*\d{4}年\d{1,2}月)
    YearMonth \o <<Ws>> \o Word(Kara) \o <<Ws>> \o YearMonth,  \* (\d{4}年\d{1,2}月\s*から\s*\d{4}年\d{1,2}月)
    YearDot \o <<Ws, Lit("-"), Ws>> \o YearDot,           \* (\d{4}\.\d{1,2}\s*-\s*\d{4}\.\d{1,2})
    <<D4, Lit("-"), D4>>,                                 \* (\d{4}-\d{4})
    <<Lit("F"), Lit("Y"), D4, Lit("-"), Lit("F"), Lit("Y"), D4>>,  \* (FY\d{4}-FY\d{4})
    EraYear(Heisei) \o <<Ws, Lit("-"), Ws>> \o EraYear(Heisei),    \* (平成\d{1,2}年度\s*-\s*平成\d{1,2}年度)
    EraYear(Reiwa) \o <<Ws, Lit("-"), Ws>> \o EraYear(Reiwa),      \* (令和\d{1,2}年度\s*-\s*令和\d{1,2}年度)
    FiscalYear \o <<Ws, Lit("-"), Ws>> \o FiscalYear,     \* (\d{4}年度\s*-\s*\d{4}年度)
    FiscalYear \o Word(Kara) \o FiscalYear,               \* (\d{4}年度から\d{4}年度)
    YearMonth \o <<Ws, Lit("-"), Ws>> \o YearMonth,       \* (\d{4}年\d{1,2}月\s*-\s*\d{4}年\d{1,2}月)
    <<D4, Lit(Nen), Ws, Lit("-"), Ws, D4, Lit(Nen)>>      \* (\d{4}年\s*-\s*\d{4}年)
>>

\* for pattern in period_patterns: match = re.search(pattern, text);
\* if match: return match.group(1).strip()  ...  return ""
RECURSIVE PeriodLoopLastWins(_, _, _)
PeriodLoopLastWins(text, k, found) ==
    IF k > Len(period_patterns) THEN found
    ELSE LET match == re_search(period_patterns[k], text)
         IN  IF match # <<>>
             THEN PeriodLoopLastWins(text, k + 1, strip(group0(text, match)))
             ELSE PeriodLoopLastWins(text, k + 1, found)

RECURSIVE PeriodLoop(_, _, _)
PeriodLoop(text, k, found) ==
    IF k > Len(period_patterns) THEN found
    ELSE LET match == re_search(period_patterns[k], text)
         IN  IF match # <<>> THEN strip(group0(text, match))
             ELSE PeriodLoop(text, k + 1, found)

extract_period(text) == PeriodLoop(text, 1, <<>>)

Keyword == <<"u30AD", "u30FC", "u30EF", "u30FC", "u30C9">>  \* キーワード
ResearchKeyword ==  \* 研究キーワード
    <<"u7814", "u7A76">> \o Keyword
TechKeyword ==      \* 技術キーワード
    <<"u6280", "u8853">> \o Keyword

\* LABEL[：:]\s*([^,\n]+) ; the capture group is the last item.
Labelled(label) ==
    Word(label) \o <<OneOf({"uFF1A", ":"}), Ws, NotPlus({",", "\n"})>>

keyword_patterns == <<
    Labelled(Keyword),          \* キーワード[：:]\s*([^,\n]+)
    Labelled(ResearchKeyword),  \* 研究キーワード[：:]\s*([^,\n]+)
    Labelled(TechKeyword)       \* 技術キーワード[：:]\s*([^,\n]+)
>>

\* keywords.extend([kw.strip() for kw in keywords_text.split(',') if kw.strip()])
\* where keywords_text = match.group(1).strip().  The group holds no comma,
\* so the split yields keywords_text alone.
KeywordsOfMatch(text, pattern) ==
    LET match == re_search(pattern, text)
    IN  IF match = <<>> THEN <<>>
        ELSE LET keywords_text == strip(group(text, match, Len(pattern), Len(pattern)))
             IN  IF keywords_text # <<>> THEN <<keywords_text>> ELSE <<>>

\* for pattern in keyword_patterns: ... (no return inside the loop)
RECURSIVE KeywordLoop(_, _)
KeywordLoop(text, k) ==
    IF k > Len(keyword_patterns) THEN <<>>
    ELSE KeywordsOfMatch(text, keyword_patterns[k]) \o KeywordLoop(text, k + 1)

extract_keywords(text) == KeywordLoop(text, 1)

(***************************************************************************)
(* Inputs of the cascades: concatenations of at most MaxTextParts parts.   *)
(***************************************************************************)
MaxTextParts == 2

PeriodExample ==  \* 2023年4月 - 2026年3月
    <<"2", "0", "2", "3", "u5E74", "4", "u6708", " ", "-", " ", "2", "0",
      "2", "6", "u5E74", "3", "u6708">>
NoDateInfo ==  \* no date info here
    <<"n", "o", " ", "d", "a", "t", "e", " ", "i", "n", "f", "o", " ", "h",
      "e", "r", "e">>
ResearchKeywordAI ==  \* 研究キーワード: AI
    <<"u7814", "u7A76", "u30AD", "u30FC", "u30EF", "u30FC", "u30C9", ":",
      " ", "A", "I">>

TextParts == {
    PeriodExample,
    NoDateInfo,
    ResearchKeywordAI,
    <<" ">>,
    <<"-">>,
    <<"2", "0", "2", "0", "-", "2", "0", "2", "3">>,                       \* 2020-2023
    <<"2", "0", "2", "0", "-", "2", "0", "2", "3", " ">> \o ResearchKeywordAI,  \* 2020-2023 研究キーワード: AI
    <<"F", "Y", "2", "0", "2", "0", "-", "F", "Y", "2", "0", "2", "3">>,   \* FY2020-FY2023
    <<"u4EE4", "u548C", "2", "u5E74", "u5EA6", "-",
      "u4EE4", "u548C", "5", "u5E74", "u5EA6">>,                           \* 令和2年度-令和5年度
    <<"2", "0", "1", "9", "u5E74", "4", "u6708">>,                         \* 2019年4月
    <<"uFF5E", "2", "0", "2", "1", "u5E74", "3", "u6708">>,                \* ～2021年3月
    <<"2", "0", "1", "8", "u5E74">>,                                       \* 2018年
    <<"u30AD", "u30FC", "u30EF", "u30FC", "u30C9", "uFF1A", "M", "L">>,    \* キーワード：ML
    <<"u6280", "u8853", "u30AD", "u30FC", "u30EF", "u30FC", "u30C9", ":", " ">>  \* 技術キーワード:(space)
}

CascadeTexts == Concats(TextParts, MaxTextParts)

InitCascade ==
    /\ pc = "extract_period"
    /\ call \in [text : CascadeTexts]
    /\ ret = <<>>
    /\ NoCrawl

ExtractPeriod ==
    /\ pc = "extract_period"
    /\ ret' = [period |-> extract_period(call.text)]
    /\ pc' = "extract_keywords"
    /\ UNCHANGED <<call, crawl_vars>>

ExtractKeywords ==
    /\ pc = "extract_keywords"
    /\ ret' = [period |-> ret.period, keywords |-> extract_keywords(call.text)]
    /\ pc' = "done"
    /\ UNCHANGED <<call, crawl_vars>>

NextCascade == ExtractPeriod \/ ExtractKeywords

SpecCascade == InitCascade /\ [][NextCascade]_vars

\* The patterns of a list that match somewhere in the text, and the text a
\* pattern captures there.
MatchingPeriodPatterns ==
    {k \in 1..Len(period_patterns) : re_search(period_patterns[k], call.text) # <<>>}
MatchingKeywordPatterns ==
    {k \in 1..Len(keyword_patterns) : re_search(keyword_patterns[k], call.text) # <<>>}
First(S) == CHOOSE k \in S : \A j \in S : k <= j
PeriodCapture(k) == group0(call.text, re_search(period_patterns[k], call.text))
KeywordCapture(k) ==
    strip(group(call.text, re_search(keyword_patterns[k], call.text),
                Len(keyword_patterns[k]), Len(keyword_patterns[k])))

\* extract_period returns the capture of the first pattern, in list order,
\* that matches, and the empty string when none does; the two examples.
PeriodFirstMatch ==
    /\ ret.period = IF MatchingPeriodPatterns = {} THEN <<>>
                    ELSE PeriodCapture(First(MatchingPeriodPatterns))
    /\ call.text = PeriodExample => ret.period = PeriodExample
    /\ call.text = NoDateInfo => ret.period = <<>>

RECURSIVE AllKeywordCaptures(_)
AllKeywordCaptures(k) ==
    IF k > Len(keyword_patterns) THEN <<>>
    ELSE (IF k \in MatchingKeywordPatterns /\ KeywordCapture(k) # <<>>
          THEN <<KeywordCapture(k)>> ELSE <<>>) \o AllKeywordCaptures(k + 1)

ITEMS_PER_PAGE == 60
\* ScrapingConfig.BASE_URL = "https://researchmap.jp"
BASE_URL == <<"https:", "", "researchmap.jp">>

Url(segs) == [segs |-> segs, q |-> "", start |-> 0]

\* URLHelper.build_search_url: f"{BASE_URL}/search?q={researcher_id}&lang=ja"
build_search_url(researcher_id) ==
    [segs |-> BASE_URL \o <<"search">>, q |-> researcher_id, start |-> 0]

\* build_search_url("%E6%A0%AA%E5%BC%8F%E4%BC%9A%E7%A4%BE"), the default search
DefaultSearchUrl == build_search_url("%E6%A0%AA%E5%BC%8F%E4%BC%9A%E7%A4%BE")

\* One entry of `requests`: the URL, whether the response arrived with a 2xx
\* status (otherwise _make_request raised), and the method that issued it.
Request(url, ok, by) == [url |-> url, ok |-> ok, by |-> by]

\* One entry of `log`.
LogEntry(level, by, about) == [level |-> level, by |-> by, about |-> about]

(***************************************************************************)
(* ResearchMapIntegratedScraper.get_total_pages                            *)
(* The page-1 document is its text nodes, in document order, and its first *)
(* <ul class="pagination">: <<>> when there is none, <<links>> otherwise,   *)
(* links being the texts of its <a> elements.                              *)
(***************************************************************************)
TotalCountMarker == <<"u7DCF", "u4EF6", "u6570">>  \* 総件数

\* r'総件数\s*(\d+)' ; the capture group is the last item.
TotalCountPattern == Word(TotalCountMarker) \o <<Ws, Plus(Digits)>>

DigitChars == <<"0", "1", "2", "3", "4", "5", "6", "7", "8", "9">>
DigitValue(c) == (CHOOSE n \in 1..Len(DigitChars) : DigitChars[n] = c) - 1

\* int(s) of a string of digits
RECURSIVE ParseInt(_)
ParseInt(s) ==
    IF s = <<>> THEN 0
    ELSE ParseInt(SubSeq(s, 1, Len(s) - 1)) * Len(DigitChars) + DigitValue(s[Len(s)])

\* str.isdigit()
isdigit(s) == s # <<>> /\ \A n \in 1..Len(s) : s[n] \in Digits

\* The page count had the division rounded down.
PagesOfCountFloor(total_count) == total_count \div ITEMS_PER_PAGE

\* (total_count + ITEMS_PER_PAGE - 1) // ITEMS_PER_PAGE
PagesOfCount(total_count) == (total_count + ITEMS_PER_PAGE - 1) \div ITEMS_PER_PAGE

\* for element in total_count_elements: match = re.search(...); if match: return ...
\* <<>> when the loop ends without a return.
RECURSIVE TotalCountLoop(_, _)
TotalCountLoop(elements, k) ==
    IF k > Len(elements) THEN <<>>
    ELSE LET match == re_search(TotalCountPattern, elements[k])
         IN  IF match # <<>>
             THEN <<PagesOfCount(ParseInt(group(elements[k], match,
                                                Len(TotalCountPattern),
                                                Len(TotalCountPattern))))>>
             ELSE TotalCountLoop(elements, k + 1)

\* page_numbers: int(text) of every link whose stripped text isdigit()
RECURSIVE PageNumbers(_)
PageNumbers(page_links) ==
    IF page_links = <<>> THEN <<>>
    ELSE LET text == strip(Head(page_links))
         IN  (IF isdigit(text) THEN <<ParseInt(text)>> ELSE <<>>)
                 \o PageNumbers(Tail(page_links))

\* max(list) of a non-empty list
Max(list) == CHOOSE m \in {list[n] : n \in 1..Len(list)} :
                 \A n \in 1..Len(list) : list[n] <= m

\* The pagination fallback and the default of 1.
PagesFromPagination(doc) ==
    IF doc.pagination # <<>>
           /\ doc.pagination[1] # <<>>
           /\ PageNumbers(doc.pagination[1]) # <<>>
    THEN Max(PageNumbers(doc.pagination[1]))
    ELSE 1

\* The body of the try block, given the parsed page-1 document.
TotalPagesOfDoc(doc) ==
    LET total_count_elements ==
            SelectSeq(doc.strings, LAMBDA text : Contains(text, TotalCountMarker))
        counted == TotalCountLoop(total_count_elements, 1)
    IN  IF counted # <<>> THEN counted[1] ELSE PagesFromPagination(doc)

\* get_total_pages: `ok` is whether _make_request returned; when it raised,
\* the except clause logs and returns 1.
get_total_pages(ok, doc) == IF ok THEN TotalPagesOfDoc(doc) ELSE 1

(***************************************************************************)
(* dict helpers: a dict is a function on its keys, {} is the empty one.    *)
(***************************************************************************)
EmptyDict == <<>>

\* d.get(key, default)
get(d, key, default) == IF key \in DOMAIN d THEN d[key] ELSE default

\* d.update(e) on a copy of d
update(d, e) ==
    [k \in (DOMAIN d) \cup (DOMAIN e) |-> IF k \in DOMAIN e THEN e[k] ELSE d[k]]

(***************************************************************************)
(* URLHelper                                                               *)
(***************************************************************************)
\* url.startswith('http')
StartsWithHttp(segs) == segs # <<>> /\ Head(segs) \in {"http:", "https:"}

\* ensure_absolute_url: urljoin(BASE_URL, url) for a relative url; a url
\* beginning with '/' (first piece empty) replaces the path of the base.
ensure_absolute_url(segs) ==
    IF StartsWithHttp(segs) THEN segs
    ELSE IF segs # <<>> /\ Head(segs) = "" THEN BASE_URL \o Tail(segs)
    ELSE BASE_URL \o segs

\* extract_researcher_id: url.split('/')[-1]
extract_researcher_id(segs) == segs[Len(segs)]

\* build_projects_url: f"{researcher_url}/research_projects"
build_projects_url(segs) == Url(Append(segs, "research_projects"))

(***************************************************************************)
(* extract_researchers_from_page.  A listing page is the sequence of its   *)
(* <li> items; an item says whether it has the card div, the name link     *)
(* (text and href) or <<>>, and the affiliation div (text) or <<>>.  The   *)
(* href of a link without that attribute is None.                          *)
(***************************************************************************)
ListItem(card, name_link, affiliation) ==
    [card |-> card, name_link |-> name_link, affiliation |-> affiliation]

\* researcher_info of one item with a card
researcher_info(item) ==
    LET named == IF item.name_link # <<>>
                 THEN [name |-> strip(item.name_link[1].text),
                       researcher_url |-> ensure_absolute_url(item.name_link[1].href),
                       researcher_id |-> extract_researcher_id(
                                             ensure_absolute_url(item.name_link[1].href))]
                 ELSE EmptyDict
        affiliated == IF item.affiliation # <<>>
                      THEN [affiliation |-> strip(item.affiliation[1])]
                      ELSE EmptyDict
    IN  update(named, affiliated)

\* name_link['href'] raises KeyError: the except clause of the loop logs
\* and goes on with the next item.
ItemRaises(item) ==
    item.card /\ item.name_link # <<>> /\ item.name_link[1].href = None

\* The extraction, had the try block enclosed the loop: the first item
\* that raises ends the page.
RECURSIVE extract_researchers_until_error(_)
extract_researchers_until_error(items) ==
    IF items = <<>> \/ ItemRaises(Head(items)) THEN <<>>
    ELSE LET item == Head(items)
             info == researcher_info(item)
             kept == item.card /\ info # EmptyDict /\ get(info, "name", <<>>) # <<>>
         IN  (IF kept THEN <<info>> ELSE <<>>)
                 \o extract_researchers_until_error(Tail(items))

RECURSIVE extract_researchers_from_page(_)
extract_researchers_from_page(items) ==
    IF items = <<>> THEN <<>>
    ELSE LET item == Head(items)
             info == researcher_info(item)
             kept == /\ item.card
                     /\ ~ItemRaises(item)
                     /\ info # EmptyDict
                     /\ get(info, "name", <<>>) # <<>>
         IN  (IF kept THEN <<info>> ELSE <<>>)
                 \o extract_researchers_from_page(Tail(items))

(***************************************************************************)
(* get_researchers_from_all_pages: the URL of page `p`.                    *)
(***************************************************************************)
\* The URL had the offset been (p-1)*ITEMS_PER_PAGE.
PageUrlZeroBased(base_search_url, p) ==
    IF p = 1 THEN base_search_url
    ELSE [base_search_url EXCEPT !.start = (p - 1) * ITEMS_PER_PAGE]

PageUrl(base_search_url, p) ==
    IF p = 1 THEN base_search_url
    ELSE [base_search_url EXCEPT !.start = (p - 1) * ITEMS_PER_PAGE + 1]

(***************************************************************************)
(* _extract_all_projects.  The research_projects page is the sequence of   *)
(* its <li class="list-group-item"> items; an item has its title link      *)
(* (text and href) or <<>>, and its <div>s in document order, each with    *)
(* whether it contains an <a>, whether its class is rm-cv-list-author,     *)
(* and its text.                                                           *)
(***************************************************************************)
Div(has_a, author, text) == [has_a |-> has_a, author |-> author, text |-> text]
ProjectItem(title_link, divs) == [title_link |-> title_link, divs |-> divs]

\* text.split('\n')
RECURSIVE SplitLines(_)
SplitLines(text) ==
    IF \E n \in 1..Len(text) : text[n] = "\n"
    THEN LET k == CHOOSE n \in 1..Len(text) :
                      text[n] = "\n" /\ \A m \in 1..(n - 1) : text[m] # "\n"
         IN  <<SubSeq(text, 1, k - 1)>> \o SplitLines(SubSeq(text, k + 1, Len(text)))
    ELSE <<text>>

\* ' '.join(lines)
RECURSIVE JoinSpace(_)
JoinSpace(lines) ==
    IF lines = <<>> THEN <<>>
    ELSE IF Len(lines) = 1 THEN lines[1]
    ELSE lines[1] \o <<" ">> \o JoinSpace(Tail(lines))

\* The names a line must not contain to count as funding information.
ResearcherNameKeywords ==
    <<<<"u517C", "u677E">>,
      <<"u5E73", "u4E95">>,
      <<"u5C0F", "u5DDD">>,
      <<"u751F", "u8C9D">>,
      <<"u7530", "u8DEF">>,
      <<"u5C0F", "u6797">>,
      <<"u5CA1", "u7530">>,
      <<"u5185", "u6D77">>,
      <<"u4E09", "u6D66">>,
      <<"u52A0", "u85E4">>,
      <<"u9234", "u6728">>,
      <<"u79CB", "u5143">>,
      <<"u5CA9", "u7530">>,
      <<"u77E2", "u5CF6">>,
      <<"u4E2D", "u5E73">>,
      <<"C", "o", "l", "l", "i", "g", "o", "n">>,
      <<"u67A1", "u7530">>,
      <<"u5C0F", "u5DDD">>,
      <<"u4E9C", "u5E0C", "u5B50">>,
      <<"u7389", "u5185">>>>

\* funding_lines of a funding_text
FundingLines(funding_text) ==
    LET lines == SplitLines(funding_text)
        stripped == [n \in 1..Len(lines) |-> strip(lines[n])]
    IN  SelectSeq(stripped,
                  LAMBDA line : /\ line # <<>>
                                /\ ~ \E k \in 1..Len(ResearcherNameKeywords) :
                                         Contains(line, ResearcherNameKeywords[k]))

\* for div in divs: the first div without a link and not of the author
\* class whose text is non-empty and differs from the title settles
\* funding_system (break), also when all its lines are filtered away.
RECURSIVE FundingLoop(_, _, _)
FundingLoop(divs, k, title) ==
    IF k > Len(divs) THEN EmptyDict
    ELSE LET div == divs[k]
             funding_text == strip(div.text)
         IN  IF ~div.has_a /\ ~div.author /\ funding_text # <<>> /\ funding_text # title
             THEN IF FundingLines(funding_text) # <<>>
                  THEN [funding_system |-> JoinSpace(FundingLines(funding_text))]
                  ELSE EmptyDict
             ELSE FundingLoop(divs, k + 1, title)

\* The project dict of one item, had the classifier been given the text of
\* the funding div as it stands in the page.
ProjectOfItemRawText(item) ==
    LET titled == IF item.title_link # <<>>
                  THEN [title |-> strip(item.title_link[1].text),
                        project_url |-> ensure_absolute_url(item.title_link[1].href)]
                  ELSE EmptyDict
        funded == FundingLoop(item.divs, 1, get(titled, "title", <<>>))
        free_divs == SelectSeq(item.divs, LAMBDA div : ~div.has_a /\ ~div.author)
        author_divs == SelectSeq(item.divs, LAMBDA div : div.author)
        authored == IF author_divs # <<>>
                    THEN [researchers |-> strip(author_divs[1].text)]
                    ELSE EmptyDict
        project == update(update(titled, funded), authored)
    IN  update(project,
               [is_competitive |->
                    is_competitive_funding_by_html_structure(
                        IF free_divs # <<>> THEN free_divs[Len(free_divs)].text ELSE <<>>,
                        get(project, "institution", <<>>),
                        get(project, "project_type", <<>>))])

\* The project dict of one item.
ProjectOfItem(item) ==
    LET titled == IF item.title_link # <<>>
                  THEN [title |-> strip(item.title_link[1].text),
                        project_url |-> ensure_absolute_url(item.title_link[1].href)]
                  ELSE EmptyDict
        funded == FundingLoop(item.divs, 1, get(titled, "title", <<>>))
        author_divs == SelectSeq(item.divs, LAMBDA div : div.author)
        authored == IF author_divs # <<>>
                    THEN [researchers |-> strip(author_divs[1].text)]
                    ELSE EmptyDict
        project == update(update(titled, funded), authored)
    IN  update(project,
               [is_competitive |->
                    is_competitive_funding_by_html_structure(
                        get(project, "funding_system", <<>>),
                        get(project, "institution", <<>>),
                        get(project, "project_type", <<>>))])

\* _extract_all_projects: `ok` is whether _make_request returned.
RECURSIVE ProjectsOfItems(_)
ProjectsOfItems(project_items) ==
    IF project_items = <<>> THEN <<>>
    ELSE LET project == ProjectOfItem(Head(project_items))
         IN  (IF get(project, "title", <<>>) # <<>> THEN <<project>> ELSE <<>>)
                 \o ProjectsOfItems(Tail(project_items))

extract_all_projects(ok, project_items) ==
    IF ok THEN ProjectsOfItems(project_items) ELSE <<>>

\* A filter that lets every project through.
extract_every_project(all_projects) == all_projects

\* _extract_competitive_projects
extract_competitive_projects(all_projects) ==
    SelectSeq(all_projects, LAMBDA project : get(project, "is_competitive", FALSE))

\* get_researcher_detailed_info: `soup` stands for the six values the
\* _extract_* helpers find in the profile page; on any exception the result
\* is {}.
get_researcher_detailed_info(ok, soup) == IF ok THEN soup ELSE EmptyDict

(***************************************************************************)
(* The documents of the modelled site.                                     *)
(***************************************************************************)
NameLink(text, href) == <<[text |-> text, href |-> href]>>

Affiliation == <<"u682A", "u5F0F", "u4F1A", "u793E", "u30B5", "u30F3", "u30D7", "u30EB">>  \* 株式会社サンプル

ResearcherItem(name, id) ==
    ListItem(TRUE, NameLink(<<" ">> \o name \o <<"\n">>, <<"", id>>), <<Affiliation>>)

\* Items of the three listing pages: five researchers, an <li> without a
\* card and a card without a name link.
Page1Items == <<ResearcherItem(<<"R", "1">>, "r1"),
                ListItem(FALSE, <<>>, <<>>),
                ResearcherItem(<<"R", "2">>, "r2")>>
Page2Items == <<ResearcherItem(<<"R", "3">>, "r3"),
                ListItem(TRUE, <<>>, <<Affiliation>>),
                ResearcherItem(<<"R", "4">>, "r4")>>
Page3Items == <<ResearcherItem(<<"R", "5">>, "r5")>>
LaterPages == <<Page2Items, Page3Items>>

SearchDoc(strings, pagination) ==
    [strings |-> strings, pagination |-> pagination, items |-> Page1Items]

\* The listing pages after the first that the site serves: LaterPages
\* unless the site is given others.
SitePages == IF "later_pages" \in DOMAIN web THEN web.later_pages ELSE LaterPages

\* What the site returns for a search URL: a search for a researcher id
\* lists that researcher; for the default search the bare URL is page 1, and
\* &start=s is the page that begins with result s.
ListingItems(url) ==
    IF url.q # DefaultSearchUrl.q
    THEN SelectSeq(Page1Items \o Page2Items \o Page3Items,
                   LAMBDA item : /\ item.name_link # <<>>
                                 /\ item.name_link[1].href = <<"", url.q>>)
    ELSE IF url.start = 0 THEN web.search.items
    ELSE IF /\ (url.start - 1) % ITEMS_PER_PAGE = 0
            /\ (url.start - 1) \div ITEMS_PER_PAGE \in 1..Len(SitePages)
         THEN SitePages[(url.start - 1) \div ITEMS_PER_PAGE]
         ELSE <<>>

Orcid == <<"0", "0", "0", "0", "-", "0", "0", "0", "1">>
KeywordsOfProfile == <<<<"A", "I">>, <<"u6750", "u6599">>, <<"I", "o", "T">>>>

\* The values found in the profile page of a researcher.
Education == <<[period |-> <<"1", "9", "9", "9">>, institution |-> Affiliation]>>

ProfilePage(researcher_id) ==
    [orcid_id |-> IF researcher_id = "r1" THEN Orcid ELSE None,
     jglobal_id |-> None,
     researchmap_member_id |-> None,
     research_keywords |-> IF researcher_id \in {"r1", "r2"} THEN KeywordsOfProfile ELSE <<>>,
     research_areas |-> <<>>,
     all_affiliations |-> <<Affiliation>>]

KakenhiKibanC == <<"u65E5", "u672C", "u5B66", "u8853", "u632F", "u8208", "u4F1A", " ", "u79D1", "u5B66", "u7814", "u7A76", "u8CBB", "u52A9", "u6210", "u4E8B", "u696D", " ", "u57FA", "u76E4", "u7814", "u7A76", "(", "C", ")">>  \* 日本学術振興会 科学研究費助成事業 基盤研究(C)
JSPSWithPeriod == <<"u65E5", "u672C", "u5B66", "u8853", "u632F", "u8208", "u4F1A", "\n", "2", "0", "2", "0", "u5E74", "4", "u6708", " ", "-", " ", "2", "0", "2", "3", "u5E74", "3", "u6708">>  \* 日本学術振興会\n2020年4月 - 2023年3月
JointResearch == <<"u5171", "u540C", "u7814", "u7A76">>  \* 共同研究
AuthorLine == <<"u9234", "u6728", " ", "u4E00", "u90CE">>  \* 鈴木 一郎
TitleA == <<"u8AB2", "u984C", "A">>  \* 課題A
TitleB == <<"u8AB2", "u984C", "B">>  \* 課題B

TitleLink(title, id) == NameLink(title, <<"", id, "research_projects", "1">>)

CompetitiveItem(id) ==
    ProjectItem(TitleLink(TitleA, id),
                <<Div(TRUE, FALSE, TitleA), Div(FALSE, FALSE, KakenhiKibanC),
                  Div(FALSE, TRUE, AuthorLine)>>)
InstitutionOnlyItem(id) ==
    ProjectItem(TitleLink(TitleA, id),
                <<Div(TRUE, FALSE, TitleA), Div(FALSE, FALSE, JSPSWithPeriod),
                  Div(FALSE, TRUE, AuthorLine)>>)
NonCompetitiveItem(id) ==
    ProjectItem(TitleLink(TitleB, id),
                <<Div(TRUE, FALSE, TitleB), Div(FALSE, FALSE, JointResearch)>>)
UntitledItem == ProjectItem(<<>>, <<Div(FALSE, FALSE, KakenhiKibanC)>>)
JSPSOnlyItem(id) ==
    ProjectItem(TitleLink(TitleA, id),
                <<Div(TRUE, FALSE, TitleA), Div(FALSE, FALSE, JSPS)>>)
MixedLines == <<"u9234", "u6728", " ", "u79D1", "u7814", "u8CBB", "\n", "u5171", "u540C", "u7814", "u7A76">>  \* 鈴木 科研費\n共同研究
MixedLinesItem(id) ==
    ProjectItem(TitleLink(TitleB, id),
                <<Div(TRUE, FALSE, TitleB), Div(FALSE, FALSE, MixedLines)>>)
NamedLineItem(id) ==
    ProjectItem(TitleLink(TitleB, id),
                <<Div(FALSE, FALSE, TitleB), Div(FALSE, FALSE, AuthorLine),
                  Div(FALSE, FALSE, KakenhiKibanC)>>)

\* The research_projects pages of the five researchers.
SiteProjects ==
    [researcher_id \in {"r1", "r2", "r3", "r4", "r5"} |->
        IF researcher_id = "r1"
        THEN <<CompetitiveItem("r1"), NonCompetitiveItem("r1")>>
        ELSE IF researcher_id = "r2"
        THEN <<InstitutionOnlyItem("r2"), NonCompetitiveItem("r2")>>
        ELSE IF researcher_id = "r3" THEN <<>>
        ELSE IF researcher_id = "r4" THEN <<UntitledItem, CompetitiveItem("r4")>>
        ELSE <<NonCompetitiveItem(researcher_id)>>]

\* The research_projects page the site returns for a researcher.
ProjectsPage(researcher_id) ==
    IF researcher_id \in DOMAIN web.projects THEN web.projects[researcher_id] ELSE <<>>

(***************************************************************************)
(* scrape_all_researchers_and_projects as a state machine: one step per    *)
(* request-issuing unit of the code (page discovery, one iteration of the  *)
(* page loop, the cut-off, one iteration of the researcher loop, the       *)
(* return).  Each request either returns or raises RequestException; the   *)
(* parse of a listing page may also raise.                                 *)
(***************************************************************************)
\* if not search_url: search_url = URLHelper.build_search_url(...)
search_url == IF call.search_url = <<>> THEN DefaultSearchUrl ELSE call.search_url[1]

\* What _make_request and the caller's except clause log when a request raises.
RequestErrorLog(url, by, about) ==
    <<LogEntry("error", "_make_request", url), LogEntry("error", by, about)>>

\* The step of get_total_pages: one request for the search URL.
GetTotalPages ==
    /\ pc = "get_total_pages"
    /\ \E ok \in BOOLEAN :
           /\ requests' = Append(requests, Request(search_url, ok, "get_total_pages"))
           /\ total_pages' = get_total_pages(ok, web.search)
           /\ log' = IF ~ok
                     THEN log \o RequestErrorLog(search_url, "get_total_pages", search_url)
                     ELSE IF /\ TotalCountLoop(SelectSeq(web.search.strings,
                                    LAMBDA text : Contains(text, TotalCountMarker)), 1) = <<>>
                             /\ \/ web.search.pagination = <<>>
                                \/ PageNumbers(web.search.pagination[1]) = <<>>
                          THEN Append(log, LogEntry("warning", "get_total_pages", search_url))
                          ELSE log
    /\ page' = 1
    /\ pc' = "pages"
    /\ UNCHANGED <<call, ret, web, all_researchers, researcher_index,
                   researchers_with_projects, total_competitive_projects>>

\* The loop variable had the except clause ended the loop.
AfterPageBreak(p, failed) == IF failed THEN total_pages + 1 ELSE p + 1

\* The value of the loop variable after the iteration for page p: the
\* except clause ends with `continue`.
AfterPage(p, failed) == p + 1

\* The iteration had page 1 been parsed from the response that
\* get_total_pages received, without a request of its own.
FetchListingPageReusingDiscovery ==
    /\ pc = "pages"
    /\ page <= total_pages
    /\ \E outcome \in {"ok", "RequestException", "parse error"} :
           LET page_url == PageUrl(search_url, page)
               by == "get_researchers_from_all_pages"
           IN  /\ requests' = IF page = 1 THEN requests
                               ELSE Append(requests,
                                        Request(page_url, outcome # "RequestException", by))
               /\ all_researchers' =
                      IF outcome = "ok"
                      THEN all_researchers
                               \o extract_researchers_from_page(ListingItems(page_url))
                      ELSE all_researchers
               /\ log' = IF outcome = "ok" THEN log
                         ELSE IF outcome = "RequestException"
                         THEN log \o RequestErrorLog(page_url, by, page)
                         ELSE Append(log, LogEntry("error", by, page))
               /\ page' = AfterPage(page, outcome # "ok")
    /\ UNCHANGED <<pc, call, ret, web, total_pages, researcher_index,
                   researchers_with_projects, total_competitive_projects>>

\* One iteration of `for page in range(1, total_pages + 1)`.
FetchListingPage ==
    /\ pc = "pages"
    /\ page <= total_pages
    /\ \E outcome \in {"ok", "RequestException", "parse error"} :
           LET page_url == PageUrl(search_url, page)
               by == "get_researchers_from_all_pages"
           IN  /\ requests' = Append(requests,
                                     Request(page_url, outcome # "RequestException", by))
               /\ all_researchers' =
                      IF outcome = "ok"
                      THEN all_researchers
                               \o extract_researchers_from_page(ListingItems(page_url))
                      ELSE all_researchers
               /\ log' = IF outcome = "ok" THEN log
                         ELSE IF outcome = "RequestException"
                         THEN log \o RequestErrorLog(page_url, by, page)
                         ELSE Append(log, LogEntry("error", by, page))
               /\ page' = AfterPage(page, outcome # "ok")
    /\ UNCHANGED <<pc, call, ret, web, total_pages, researcher_index,
                   researchers_with_projects, total_competitive_projects>>

\* if max_researchers and max_researchers < len(all_researchers): ...[:max]
Truncated(researchers, max_researchers) ==
    IF /\ max_researchers # <<>>
       /\ max_researchers[1] # 0
       /\ max_researchers[1] < Len(researchers)
    THEN SubSeq(researchers, 1, max_researchers[1])
    ELSE researchers

\* The page loop is over: get_researchers_from_all_pages returns and the
\* cut-off is applied.
Truncate ==
    /\ pc = "pages"
    /\ page > total_pages
    /\ all_researchers' = Truncated(all_researchers, call.max_researchers)
    /\ researcher_index' = 1
    /\ pc' = "researchers"
    /\ UNCHANGED <<call, ret, web, requests, log, total_pages, page,
                   researchers_with_projects, total_competitive_projects>>

\* researcher_data of one iteration of the researcher loop
ResearcherData(researcher, detailed_info, all_projects) ==
    update(update(researcher, detailed_info),
           [all_projects |-> all_projects,
            competitive_projects |-> extract_competitive_projects(all_projects),
            competitive_project_count |->
                Len(extract_competitive_projects(all_projects))])

\* One iteration of `for i, researcher in enumerate(all_researchers, 1)`.
ProcessResearcher ==
    /\ pc = "researchers"
    /\ researcher_index <= Len(all_researchers)
    /\ LET researcher == all_researchers[researcher_index]
           researcher_url == get(researcher, "researcher_url", <<>>)
       IN  IF researcher_url = <<>>
           THEN /\ log' = Append(log, LogEntry("warning",
                              "scrape_all_researchers_and_projects", researcher_index))
                /\ UNCHANGED <<requests, researchers_with_projects,
                               total_competitive_projects>>
           ELSE \E detail_ok \in BOOLEAN, projects_ok \in BOOLEAN :
                    LET researcher_id == extract_researcher_id(researcher_url)
                        projects_url == build_projects_url(researcher_url)
                        detailed_info == get_researcher_detailed_info(
                                             detail_ok, ProfilePage(researcher_id))
                        all_projects == extract_all_projects(
                                            projects_ok, ProjectsPage(researcher_id))
                    IN  /\ requests' = requests
                               \o <<Request(Url(researcher_url), detail_ok,
                                            "get_researcher_detailed_info"),
                                    Request(projects_url, projects_ok,
                                            "_extract_all_projects")>>
                        /\ log' = log
                               \o (IF detail_ok THEN <<>>
                                   ELSE RequestErrorLog(Url(researcher_url),
                                            "get_researcher_detailed_info",
                                            Url(researcher_url)))
                               \o (IF projects_ok THEN <<>>
                                   ELSE RequestErrorLog(projects_url,
                                            "_extract_all_projects", projects_url))
                        /\ researchers_with_projects' =
                               Append(researchers_with_projects,
                                      ResearcherData(researcher, detailed_info, all_projects))
                        /\ total_competitive_projects' =
                               total_competitive_projects
                                   + Len(extract_competitive_projects(all_projects))
    /\ researcher_index' = researcher_index + 1
    /\ UNCHANGED <<pc, call, ret, web, total_pages, page, all_researchers>>

\* The result dict (scraped_at, a timestamp, is left out).
BuildResult ==
    /\ pc = "researchers"
    /\ researcher_index > Len(all_researchers)
    /\ ret' = [total_researchers |-> Len(all_researchers),
               processed_researchers |-> Len(researchers_with_projects),
               total_competitive_projects |-> total_competitive_projects,
               researchers |-> researchers_with_projects,
               search_url |-> search_url]
    /\ pc' = "done"
    /\ UNCHANGED <<call, crawl_vars>>

(***************************************************************************)
(* Page discovery over many page-1 documents                               *)
(***************************************************************************)
MaxCountNodes == 2

TotalCount125 == <<"u7DCF", "u4EF6", "u6570", " ", "1", "2", "5">>  \* 総件数 125
TotalCountBare == <<"u7DCF", "u4EF6", "u6570">>  \* 総件数
TotalCountZero == <<"u7DCF", "u4EF6", "u6570", " ", "0">>  \* 総件数 0
TotalCount61 == <<"u5168", "u7DCF", "u4EF6", "u6570", "6", "1", "u4EF6">>  \* 全総件数61件
SearchResults == <<"u691C", "u7D22", "u7D50", "u679C">>  \* 検索結果
TotalCountColon == <<"u7DCF", "u4EF6", "u6570", ":", " ", "7">>  \* 総件数: 7
NextLabel == <<"u6B21", "u3078">>  \* 次へ

CountNodes ==
    {TotalCount125,   \* 総件数 125
     TotalCountBare,   \* 総件数
     TotalCountZero,   \* 総件数 0
     TotalCount61,   \* 全総件数61件
     SearchResults,   \* 検索結果
     TotalCountColon}   \* 総件数: 7

Paginations ==
    {<<>>,
     <<<<>>>>,
     <<<<<<"1">>, <<"2">>, NextLabel>>>>,          \* 1 2 次へ
     <<<<<<"u00AB">>, <<" ", "1", "2", " ">>, <<"3">>>>>>,
     <<<<NextLabel>>>>}

StartCrawl ==
    /\ pc = "get_total_pages"
    /\ ret = <<>>
    /\ requests = <<>>
    /\ log = <<>>
    /\ total_pages = 0
    /\ page = 0
    /\ all_researchers = <<>>
    /\ researcher_index = 0
    /\ researchers_with_projects = <<>>
    /\ total_competitive_projects = 0

InitPages ==
    /\ StartCrawl
    /\ call = [search_url |-> <<>>, max_researchers |-> <<>>]
    /\ \E n \in 0..MaxCountNodes :
           \E strings \in [1..n -> CountNodes], pagination \in Paginations :
               web = [search |-> SearchDoc(strings, pagination),
                      projects |-> SiteProjects]

NextPages == GetTotalPages

SpecPages == InitPages /\ [][NextPages]_vars

(***************************************************************************)
(* The whole crawl                                                         *)
(***************************************************************************)
CrawlSearchDocs ==
    {SearchDoc(<<TotalCount125>>, <<>>),
     SearchDoc(<<SearchResults>>, <<<<<<"1">>, <<"2">>, NextLabel>>>>),
     SearchDoc(<<SearchResults>>, <<>>),
     SearchDoc(<<TotalCountZero>>, <<>>)}

MaxResearchersArgs == {<<>>, <<0>>, <<2>>}

InitCrawl ==
    /\ StartCrawl
    /\ call \in [search_url : {<<>>}, max_researchers : MaxResearchersArgs]
    /\ web \in [search : CrawlSearchDocs, projects : {SiteProjects}]

NextCrawl ==
    \/ GetTotalPages
    \/ FetchListingPage
    \/ Truncate
    \/ ProcessResearcher
    \/ BuildResult

SpecCrawl == InitCrawl /\ [][NextCrawl]_vars

(***************************************************************************)
(* Properties of page discovery                                            *)
(***************************************************************************)
\* The position after the white space that starts at text[a].
C4_SkipSpace(text, a) ==
    CHOOSE b \in a..(Len(text) + 1) :
        /\ \A n \in a..(b - 1) : text[n] \in Whitespace
        /\ b = Len(text) + 1 \/ text[b] \notin Whitespace

\* The last position of the run of digits that starts at text[a] (a - 1: none).
C4_DigitsEnd(text, a) ==
    CHOOSE b \in (a - 1)..Len(text) :
        /\ \A n \in a..b : text[n] \in Digits
        /\ b = Len(text) \/ text[b + 1] \notin Digits

\* <<N>> when the marker stands at text[i] and is followed, after optional
\* white space, by the number N; <<>> otherwise.
C4_ValueAt(text, i) ==
    IF i + Len(TotalCountMarker) - 1 <= Len(text)
           /\ SubSeq(text, i, i + Len(TotalCountMarker) - 1) = TotalCountMarker
    THEN LET a == C4_SkipSpace(text, i + Len(TotalCountMarker))
             b == C4_DigitsEnd(text, a)
         IN  IF b >= a THEN <<ParseInt(SubSeq(text, a, b))>> ELSE <<>>
    ELSE <<>>

\* The value of the first total-count marker of a text node, <<>> when the
\* node carries none.
C4_MarkerValue(text) ==
    LET hits == {i \in 1..Len(text) : C4_ValueAt(text, i) # <<>>}
    IN  IF hits = {} THEN <<>>
        ELSE C4_ValueAt(text, CHOOSE i \in hits : \A j \in hits : i <= j)

\* The values of the markers of the page, in document order.
C4_TotalCounts(doc) ==
    LET marked == SelectSeq(doc.strings, LAMBDA text : C4_MarkerValue(text) # <<>>)
    IN  [n \in 1..Len(marked) |-> C4_MarkerValue(marked[n])[1]]

\* The page numbers shown in the navigation control.
C4_NavNumbers(doc) ==
    IF doc.pagination = <<>> THEN {}
    ELSE LET links == doc.pagination[1]
         IN  {ParseInt(strip(links[n])) :
                  n \in {m \in 1..Len(links) : isdigit(strip(links[m]))}}

\* C4: when page 1 is fetched, get_total_pages returns ceil(N / ITEMS_PER_PAGE)
\* for the value N of the (first) total-count marker of the page, whether or
\* not a navigation control is present (125 gives 3); without a marker it
\* returns the largest page number of the navigation control; without either
\* it returns 1.
C4_TotalPages ==
    (pc # "get_total_pages" /\ requests[1].ok) =>
        LET counts == C4_TotalCounts(web.search)
            nav == C4_NavNumbers(web.search)
        IN  /\ counts # <<>> =>
                /\ total_pages * ITEMS_PER_PAGE >= counts[1]
                /\ (total_pages - 1) * ITEMS_PER_PAGE < counts[1]
            /\ (counts # <<>> /\ counts[1] = 125) => total_pages = 3
            /\ (counts = <<>> /\ nav # {}) =>
                /\ total_pages \in nav
                /\ \A n \in nav : n <= total_pages
            /\ (counts = <<>> /\ nav = {}) => total_pages = 1

\* A page with the marker 総件数 125 and a navigation control showing up to
\* page 12 has been fetched, and the result is 3.
C4_Witness ==
    /\ pc # "get_total_pages"
    /\ requests[1].ok
    /\ web.search.strings # <<>>
    /\ web.search.strings[1] = TotalCount125
    /\ 12 \in C4_NavNumbers(web.search)
    /\ total_pages = 3

\* A page without a marker whose navigation control shows pages 1 and 2.
C4_WitnessNavigation ==
    /\ pc # "get_total_pages"
    /\ requests[1].ok
    /\ C4_TotalCounts(web.search) = <<>>
    /\ C4_NavNumbers(web.search) = {1, 2}
    /\ total_pages = 2

(***************************************************************************)
(* Properties of the crawl                                                 *)
(***************************************************************************)
\* The requests issued by one method, in order.
RequestsBy(by) == SelectSeq(requests, LAMBDA r : r.by = by)

ListingRequests == RequestsBy("get_researchers_from_all_pages")
DetailRequests == RequestsBy("get_researcher_detailed_info")

\* researcher_id of every dict of a list
Ids(researchers) == [n \in 1..Len(researchers) |-> researchers[n].researcher_id]

\* The researchers listed on the pages of the site, page by page.
IdsOfPage == <<<<"r1", "r2">>, <<"r3", "r4">>, <<"r5">>>>

\* logger.error of the page loop for page p
PageLogged(p) ==
    \E n \in 1..Len(log) :
        /\ log[n].level = "error"
        /\ log[n].by = "get_researchers_from_all_pages"
        /\ log[n].about = p

\* The ids of the pages 1..k that were not logged as failed, in page order.
RECURSIVE IdsOfGoodPages(_)
IdsOfGoodPages(k) ==
    IF k = 0 THEN <<>>
    ELSE IdsOfGoodPages(k - 1)
             \o (IF PageLogged(k) \/ k > Len(IdsOfPage) THEN <<>> ELSE IdsOfPage[k])

\* C5: a listing page whose fetch or parse fails is logged and the loop goes
\* on with the next page: at every point of the page loop all pages before
\* the current one were requested, every failed request is logged, and the
\* accumulated stubs are those of the pages not logged as failed, in page
\* and within-page order; the loop ends only after total_pages requests.
C5_PageFailureSkipped ==
    /\ pc = "pages" =>
           /\ Len(ListingRequests) = page - 1
           /\ \A k \in 1..(page - 1) : ~ListingRequests[k].ok => PageLogged(k)
           /\ Ids(all_researchers) = IdsOfGoodPages(page - 1)
    /\ pc \in {"researchers", "done"} => Len(ListingRequests) = total_pages

\* The fetch of page 2 failed, page 3 was fetched after it, and the stubs of
\* pages 1 and 3 are accumulated.
C5_Witness ==
    /\ pc = "pages"
    /\ page = 4
    /\ Len(ListingRequests) = 3
    /\ ListingRequests[1].ok
    /\ ~ListingRequests[2].ok
    /\ ListingRequests[3].ok
    /\ PageLogged(2)
    /\ Ids(all_researchers) = <<"r1", "r2", "r5">>

\* The page that lists a researcher.
PageOfId(id) == CHOOSE p \in 1..Len(IdsOfPage) : \E n \in 1..Len(IdsOfPage[p]) : IdsOfPage[p][n] = id

\* C10: the k-th request of the page loop is for page k: the bare search URL
\* for k = 1 and the search URL with start = (k-1)*ITEMS_PER_PAGE + 1 for
\* k > 1; the loop issues total_pages such requests, and the accumulated
\* stubs are ordered by the page that lists them.
C10_PageOrderAndOffsets ==
    /\ \A k \in 1..Len(ListingRequests) :
           /\ ListingRequests[k].url.segs = search_url.segs
           /\ ListingRequests[k].url.q = search_url.q
           /\ ListingRequests[k].url.start =
                  IF k = 1 THEN 0 ELSE (k - 1) * ITEMS_PER_PAGE + 1
    /\ Len(ListingRequests) <= total_pages
    /\ pc \in {"researchers", "done"} => Len(ListingRequests) = total_pages
    /\ \A i \in 1..Len(all_researchers), j \in 1..Len(all_researchers) :
           i < j => PageOfId(all_researchers[i].researcher_id)
                        <= PageOfId(all_researchers[j].researcher_id)

\* Three pages were requested, the third with start = 121, and the five
\* stubs are accumulated in page order.
C10_Witness ==
    /\ pc = "pages"
    /\ Len(ListingRequests) = 3
    /\ ListingRequests[1].url = search_url
    /\ ListingRequests[2].url.start = 61
    /\ ListingRequests[3].url.start = 121
    /\ Ids(all_researchers) = <<"r1", "r2", "r3", "r4", "r5">>

\* The run is over, five researchers were listed, and every request
\* succeeded except the profile request of exactly one researcher.
C1_OneDetailFetchFailed ==
    /\ pc = "done"
    /\ Len(all_researchers) = 5
    /\ Len(DetailRequests) = 5
    /\ Cardinality({k \in 1..Len(DetailRequests) : ~DetailRequests[k].ok}) = 1
    /\ \A n \in 1..Len(requests) :
           requests[n].by # "get_researcher_detailed_info" => requests[n].ok

\* C1: if the detail fetch of exactly one researcher fails and every other
\* fetch succeeds, 'researchers' holds records for exactly the other
\* researchers, in listing order, and none for the failed one, which is
\* logged as failed.
C1_FailedEntityHasNoRecord ==
    C1_OneDetailFetchFailed =>
        LET failed == CHOOSE k \in 1..Len(DetailRequests) : ~DetailRequests[k].ok
            failed_id == all_researchers[failed].researcher_id
        IN  /\ Ids(ret.researchers)
                   = SelectSeq(Ids(all_researchers), LAMBDA id : id # failed_id)
            /\ \E n \in 1..Len(log) :
                   /\ log[n].level = "error"
                   /\ log[n].by = "get_researcher_detailed_info"
                   /\ log[n].about = DetailRequests[failed].url

(***************************************************************************)
(* get_comprehensive_researcher_data as a state machine: one step per      *)
(* _collect_* call and one for the summary; `ret` is comprehensive_data.   *)
(***************************************************************************)
Unknown == <<"U", "n", "k", "n", "o", "w", "n">>
NotAvailable == <<"N", "/", "A">>

\* _initialize_comprehensive_data
initialize_comprehensive_data(researcher_url) ==
    [researcher_url |-> researcher_url,
     basic_info |-> EmptyDict,
     detailed_info |-> EmptyDict,
     research_keywords |-> <<>>,
     research_areas |-> <<>>,
     all_affiliations |-> <<>>,
     education |-> <<>>,
     research_projects |-> <<>>,
     summary |-> EmptyDict]

\* get_researcher_basic_info: the first researcher of the search result
\* whose researcher_url is the given one, {} when there is none or the
\* request raised.
get_researcher_basic_info(ok, researcher_url, items) ==
    LET found == SelectSeq(extract_researchers_from_page(items),
                     LAMBDA researcher :
                         get(researcher, "researcher_url", <<>>) = researcher_url)
    IN  IF ok /\ found # <<>> THEN found[1] ELSE EmptyDict

\* The institution histogram of generate_summary.
FundingInstitutions(projects) ==
    LET institution(n) == get(projects[n], "institution", Unknown)
    IN  [name \in {institution(n) : n \in 1..Len(projects)} |->
            Cardinality({n \in 1..Len(projects) : institution(n) = name})]

generate_summary(data) ==
    LET basic_info == get(data, "basic_info", EmptyDict)
        detailed_info == get(data, "detailed_info", EmptyDict)
        projects == get(data, "research_projects", <<>>)
    IN  [researcher_name |-> get(basic_info, "name", Unknown),
         researcher_id |-> get(detailed_info, "researcher_id", NotAvailable),
         affiliation |-> get(basic_info, "affiliation", Unknown),
         position |-> get(basic_info, "position", Unknown),
         orcid_id |-> get(detailed_info, "orcid_id", NotAvailable),
         research_keywords_count |-> Len(get(data, "research_keywords", <<>>)),
         research_areas_count |-> Len(get(data, "research_areas", <<>>)),
         affiliations_count |-> Len(get(data, "all_affiliations", <<>>)),
         education_count |-> Len(get(data, "education", <<>>)),
         total_projects |-> Len(projects),
         competitive_projects |->
             Len(SelectSeq(projects,
                           LAMBDA project : get(project, "is_competitive", FALSE))),
         funding_institutions |-> FundingInstitutions(projects),
         unique_institutions_count |->
             Cardinality(DOMAIN FundingInstitutions(projects)),
         research_periods |->
             {get(projects[n], "period", Unknown) :
                  n \in {m \in 1..Len(projects) :
                             get(projects[m], "period", <<>>) # <<>>}}]

\* The researcher of the call and the profile URL requested for it.
target_id == extract_researcher_id(call.researcher_url)
target_url == Url(call.researcher_url)

\* _collect_basic_info
CollectBasicInfo ==
    /\ pc = "basic_info"
    /\ \E ok \in BOOLEAN :
           /\ requests' = Append(requests, Request(build_search_url(target_id), ok,
                                                   "get_researcher_basic_info"))
           /\ log' = IF ok THEN log
                     ELSE log \o RequestErrorLog(build_search_url(target_id),
                                     "get_researcher_basic_info", target_url)
           /\ ret' = update(ret,
                  [basic_info |-> get_researcher_basic_info(ok, call.researcher_url,
                                      ListingItems(build_search_url(target_id)))])
    /\ pc' = "detailed_info"
    /\ UNCHANGED <<call, web, total_pages, page, all_researchers, researcher_index,
                   researchers_with_projects, total_competitive_projects>>

\* _collect_detailed_info
CollectDetailedInfo ==
    /\ pc = "detailed_info"
    /\ \E ok \in BOOLEAN :
           /\ requests' = Append(requests,
                                 Request(target_url, ok, "get_researcher_detailed_info"))
           /\ log' = IF ok THEN log
                     ELSE log \o RequestErrorLog(target_url,
                                     "get_researcher_detailed_info", target_url)
           /\ ret' = update(ret,
                  [detailed_info |->
                       get_researcher_detailed_info(ok, ProfilePage(target_id))])
    /\ pc' = "keywords_and_areas"
    /\ UNCHANGED <<call, web, total_pages, page, all_researchers, researcher_index,
                   researchers_with_projects, total_competitive_projects>>

\* _collect_keywords_and_areas: its request is not guarded, a failure ends
\* get_comprehensive_researcher_data in its except clause.
CollectKeywordsAndAreas ==
    /\ pc = "keywords_and_areas"
    /\ \E ok \in BOOLEAN :
           /\ requests' = Append(requests,
                                 Request(target_url, ok, "_collect_keywords_and_areas"))
           /\ log' = IF ok THEN log
                     ELSE log \o RequestErrorLog(target_url,
                                     "get_comprehensive_researcher_data", target_url)
           /\ ret' = IF ok
                     THEN update(ret,
                              [research_keywords |-> ProfilePage(target_id).research_keywords,
                               research_areas |-> ProfilePage(target_id).research_areas])
                     ELSE ret
           /\ pc' = IF ok THEN "affiliations_and_education" ELSE "done"
    /\ UNCHANGED <<call, web, total_pages, page, all_researchers, researcher_index,
                   researchers_with_projects, total_competitive_projects>>

\* _collect_affiliations_and_education: the first request is not guarded,
\* get_researcher_education returns [] when its own request fails.
CollectAffiliationsAndEducation ==
    /\ pc = "affiliations_and_education"
    /\ \E ok \in BOOLEAN, education_ok \in BOOLEAN :
           LET by == "_collect_affiliations_and_education"
           IN  IF ok
               THEN /\ requests' = requests
                           \o <<Request(target_url, TRUE, by),
                                Request(target_url, education_ok,
                                        "get_researcher_education")>>
                    /\ log' = IF education_ok THEN log
                              ELSE log \o RequestErrorLog(target_url,
                                              "get_researcher_education", target_url)
                    /\ ret' = update(ret,
                           [all_affiliations |-> ProfilePage(target_id).all_affiliations,
                            education |-> IF education_ok THEN Education ELSE <<>>])
                    /\ pc' = "research_projects"
               ELSE /\ education_ok
                    /\ requests' = Append(requests, Request(target_url, FALSE, by))
                    /\ log' = log \o RequestErrorLog(target_url,
                                         "get_comprehensive_researcher_data", target_url)
                    /\ ret' = ret
                    /\ pc' = "done"
    /\ UNCHANGED <<call, web, total_pages, page, all_researchers, researcher_index,
                   researchers_with_projects, total_competitive_projects>>

\* _collect_research_projects
CollectResearchProjects ==
    /\ pc = "research_projects"
    /\ \E ok \in BOOLEAN :
           LET projects_url == build_projects_url(call.researcher_url)
               all_projects == extract_all_projects(ok, ProjectsPage(target_id))
           IN  /\ requests' = Append(requests,
                                     Request(projects_url, ok, "_extract_all_projects"))
               /\ log' = IF ok THEN log
                         ELSE log \o RequestErrorLog(projects_url,
                                         "_extract_all_projects", projects_url)
               /\ ret' = update(ret,
                      [research_projects |-> all_projects,
                       competitive_projects |->
                           extract_competitive_projects(all_projects)])
    /\ pc' = "summary"
    /\ UNCHANGED <<call, web, total_pages, page, all_researchers, researcher_index,
                   researchers_with_projects, total_competitive_projects>>

\* _generate_summary and the return
GenerateSummary ==
    /\ pc = "summary"
    /\ ret' = update(ret, [summary |-> generate_summary(ret)])
    /\ pc' = "done"
    /\ UNCHANGED <<call, crawl_vars>>

MaxProjectItems == 2

ProjectItems ==
    {CompetitiveItem("r1"), InstitutionOnlyItem("r1"), NonCompetitiveItem("r1"),
     UntitledItem, JSPSOnlyItem("r1"), NamedLineItem("r1"), MixedLinesItem("r1")}

InitComprehensive ==
    /\ pc = "basic_info"
    /\ call = [researcher_url |-> BASE_URL \o <<"r1">>]
    /\ ret = initialize_comprehensive_data(call.researcher_url)
    /\ \E n \in 0..MaxProjectItems :
           \E project_items \in [1..n -> ProjectItems] :
               web = [search |-> SearchDoc(<<>>, <<>>),
                      projects |-> [researcher_id \in {"r1"} |-> project_items]]
    /\ requests = <<>>
    /\ log = <<>>
    /\ total_pages = 0
    /\ page = 0
    /\ all_researchers = <<>>
    /\ researcher_index = 0
    /\ researchers_with_projects = <<>>
    /\ total_competitive_projects = 0

NextComprehensive ==
    \/ CollectBasicInfo
    \/ CollectDetailedInfo
    \/ CollectKeywordsAndAreas
    \/ CollectAffiliationsAndEducation
    \/ CollectResearchProjects
    \/ GenerateSummary

SpecComprehensive == InitComprehensive /\ [][NextComprehensive]_vars

\* Every request of the run succeeded, and the research_projects page has
\* two items: one funded by 日本学術振興会 (the institution alone, or with
\* the period on the next line) and one that is not competitive.
C6_Scenario ==
    /\ pc = "done"
    /\ \A n \in 1..Len(requests) : requests[n].ok
    /\ Len(web.projects["r1"]) = 2
    /\ web.projects["r1"][1] \in {JSPSOnlyItem("r1"), InstitutionOnlyItem("r1")}
    /\ web.projects["r1"][2] = NonCompetitiveItem("r1")

\* C6: end to end, a researcher whose research_projects page yields two
\* projects, one competitive through its institution 日本学術振興会 and one
\* not competitive, aggregates to one competitive project and the
\* institution histogram {"日本学術振興会": 1}.
C6_EndToEndAggregate ==
    C6_Scenario =>
        /\ Len(ret.competitive_projects) = 1
        /\ ret.summary.competitive_projects = 1
        /\ ret.summary.funding_institutions = [name \in {JSPS} |-> 1]

(***************************************************************************)
(* Properties of the cut-off                                               *)
(***************************************************************************)
ProjectsRequests == RequestsBy("_extract_all_projects")

\* The smaller of two numbers.
Min(a, b) == IF a <= b THEN a ELSE b

\* C11: with a cut-off N >= 0 configured, profile and research_projects
\* requests are issued for at most N researchers, namely the first N stubs
\* of the listing in listing order, and every researcher whose profile was
\* requested also has its research_projects page requested.
C11_CutoffRespected ==
    call.max_researchers # <<>> =>
        LET N == call.max_researchers[1]
            listed == IdsOfGoodPages(total_pages)
        IN  /\ Len(DetailRequests) <= N
            /\ Len(ProjectsRequests) = Len(DetailRequests)
            /\ pc \in {"researchers", "done"} =>
                   Ids(all_researchers) = SubSeq(listed, 1, Min(N, Len(listed)))
            /\ \A k \in 1..Len(DetailRequests) :
                   /\ k <= Len(all_researchers)
                   /\ DetailRequests[k].url = Url(all_researchers[k].researcher_url)
                   /\ ProjectsRequests[k].url
                          = build_projects_url(all_researchers[k].researcher_url)

\* A request of the page loop, a profile request or a research_projects
\* request of the run raised.
SomeFetchFailed ==
    \E n \in 1..Len(requests) :
        /\ requests[n].by \in {"get_researchers_from_all_pages",
                               "get_researcher_detailed_info",
                               "_extract_all_projects"}
        /\ ~requests[n].ok

\* C12: a result is always returned, and a failed listing-page, profile or
\* research_projects fetch shows in its counts: processed_researchers is
\* strictly less than total_researchers when some such fetch failed and
\* equal to it only when none did.
C12_FailureVisibleInCounts ==
    pc = "done" =>
        /\ ret.processed_researchers <= ret.total_researchers
        /\ SomeFetchFailed <=> ret.processed_researchers < ret.total_researchers

(***************************************************************************)
(* ResearchMapResearchersScraper.get_research_projects.  The profile page  *)
(* is the sequence of its <a href> elements (text and href); the page of a *)
(* project is its text.  Each request of the method either answers with    *)
(* status 200, answers with another status, or raises.                     *)
(***************************************************************************)
MoreLabel == <<"u3082", "u3063", "u3068", "u307F", "u308B">>  \* もっとみる

competitive_keywords ==
    <<<<"u79D1", "u7814", "u8CBB">>,
      <<"u79D1", "u5B66", "u7814", "u7A76", "u8CBB">>,
      <<"j", "s", "t">>,
      <<"a", "m", "s", "t">>,
      <<"u6587", "u90E8", "u79D1", "u5B66", "u7701">>,
      <<"u539A", "u751F", "u52B4", "u50CD", "u7701">>,
      <<"u7D4C", "u6E08", "u7523", "u696D", "u7701">>,
      <<"u7AF6", "u4E89", "u7684">>,
      <<"u57FA", "u76E4", "u7814", "u7A76">>,
      <<"u6311", "u6226", "u7684", "u7814", "u7A76">>,
      <<"u65B0", "u5B66", "u8853", "u9818", "u57DF">>,
      <<"u7279", "u5225", "u7814", "u7A76", "u54E1">>,
      <<"u82E5", "u624B", "u7814", "u7A76">>,
      <<"u840C", "u82BD", "u7814", "u7A76">>,
      <<"u57FA", "u76E4", "u7814", "u7A76", "(", "a", ")">>,
      <<"u57FA", "u76E4", "u7814", "u7A76", "(", "b", ")">>,
      <<"u57FA", "u76E4", "u7814", "u7A76", "(", "c", ")">>,
      <<"u6311", "u6226", "u7684", "u840C", "u82BD", "u7814", "u7A76">>,
      <<"u65B0", "u5B66", "u8853", "u9818", "u57DF", "u7814", "u7A76">>,
      <<"u7279", "u5225", "u63A8", "u9032", "u7814", "u7A76">>,
      <<"u79D1", "u5B66", "u7814", "u7A76", "u8CBB", "u88DC", "u52A9", "u91D1">>>>

\* Path pieces that consist of digits.
DigitSegments == {"1", "2", "12"}

\* 'research_projects' in href and not href.endswith('/research_projects')
IsProjectLink(link) ==
    /\ \E n \in 1..Len(link.href) : link.href[n] = "research_projects"
    /\ ~(Len(link.href) >= 2 /\ link.href[Len(link.href)] = "research_projects")

\* any(keyword.lower() in text.lower() for keyword in competitive_keywords)
HasCompetitiveKeyword(text) ==
    \E k \in 1..Len(competitive_keywords) :
        Contains(lower(text), lower(competitive_keywords[k]))

\* The title of a link is kept: non-empty and not the "more" label.
TitleKept(link) == strip(link.text) # <<>> /\ strip(link.text) # MoreLabel

\* The project page of a link is requested: the title does not decide.
NeedsProjectPage(link) == TitleKept(link) /\ ~HasCompetitiveKeyword(strip(link.text))

\* project_info of one link, had the status of the project page not been
\* looked at.
project_info_any_status(link, outcome, page_text) ==
    LET project_url == ensure_absolute_url(link.href)
        n == Len(project_url)
        titled == [title |-> strip(link.text), project_url |-> project_url]
        identified == IF n >= 2 /\ project_url[n - 1] = "research_projects"
                          /\ project_url[n] \in DigitSegments
                      THEN [project_id |-> project_url[n]]
                      ELSE EmptyDict
        is_competitive ==
            IF HasCompetitiveKeyword(strip(link.text)) THEN TRUE
            ELSE outcome # "exception"
                     /\ \E k \in 1..Len(competitive_keywords) :
                            Contains(lower(page_text), competitive_keywords[k])
    IN  update(update(titled, identified), [is_competitive |-> is_competitive])

\* project_info of one link; `outcome` is that of the request for the
\* project page, `page_text` the text of that page.
project_info(link, outcome, page_text) ==
    LET project_url == ensure_absolute_url(link.href)
        n == Len(project_url)
        titled == [title |-> strip(link.text), project_url |-> project_url]
        identified == IF n >= 2 /\ project_url[n - 1] = "research_projects"
                          /\ project_url[n] \in DigitSegments
                      THEN [project_id |-> project_url[n]]
                      ELSE EmptyDict
        is_competitive ==
            IF HasCompetitiveKeyword(strip(link.text)) THEN TRUE
            ELSE outcome = "200"
                     /\ \E k \in 1..Len(competitive_keywords) :
                            Contains(lower(page_text), competitive_keywords[k])
    IN  update(update(titled, identified), [is_competitive |-> is_competitive])

\* The loop over research_project_links; outcomes[n] belongs to links[n].
RECURSIVE ProjectInfos(_, _, _, _)
ProjectInfos(links, outcomes, texts, n) ==
    IF n > Len(links) THEN <<>>
    ELSE (IF IsProjectLink(links[n]) /\ TitleKept(links[n])
          THEN <<project_info(links[n], outcomes[n], texts[n])>>
          ELSE <<>>)
             \o ProjectInfos(links, outcomes, texts, n + 1)

\* The except clause of the method, had it passed the exception on.
get_research_projects_reraise(ok, links, outcomes, texts) ==
    IF ok THEN Returned(ProjectInfos(links, outcomes, texts, 1))
    ELSE Raised("RequestException")

\* get_research_projects: `ok` is whether the profile page arrived with a
\* 2xx status; otherwise the except clause logs and returns [].
get_research_projects(ok, links, outcomes, texts) ==
    IF ok THEN Returned(ProjectInfos(links, outcomes, texts, 1))
    ELSE Returned(<<>>)

\* The requests of one call, in order.
RECURSIVE ProjectPageRequests(_, _, _)
ProjectPageRequests(links, outcomes, n) ==
    IF n > Len(links) THEN <<>>
    ELSE (IF IsProjectLink(links[n]) /\ NeedsProjectPage(links[n])
          THEN <<Request(Url(ensure_absolute_url(links[n].href)),
                         outcomes[n] = "200", "get_research_projects")>>
          ELSE <<>>)
             \o ProjectPageRequests(links, outcomes, n + 1)

(***************************************************************************)
(* test_error_handling: three calls on a ResearchMapResearchersScraper,    *)
(* each in its own try block; `ret` collects what each call gave back.     *)
(***************************************************************************)
InvalidUrl == Url(<<"https:", "", "invalid-url-test.com">>)
NonexistentResearcherUrl == Url(BASE_URL \o <<"nonexistent-researcher">>)

Link(text, href) == [text |-> text, href |-> href]

ProfileLinks ==
    {Link(TitleA, <<"", "r1", "research_projects", "1">>),
     Link(TitleB, <<"", "r1", "research_projects", "2">>),
     Link(KibanC, <<"", "r1", "research_projects", "12">>),
     Link(MoreLabel, <<"", "r1", "research_projects">>),
     Link(MoreLabel, <<"", "r1", "research_projects", "2">>),
     Link(TitleA, <<"", "r1", "published_papers", "1">>)}

\* The text of the project page behind a link.
ProjectPageText(link) ==
    IF link.href[Len(link.href)] = "1" THEN KakenhiKibanC ELSE JointResearch

MaxProfileLinks == 2

InitErrorHandling ==
    /\ pc = "get_total_pages"
    /\ call = [search_url |-> InvalidUrl,
               researcher_url |-> NonexistentResearcherUrl,
               html_content |-> <<>>]
    /\ ret = <<>>
    /\ \E n \in 0..MaxProfileLinks :
           \E links \in [1..n -> ProfileLinks],
              doc \in {SearchDoc(<<TotalCount125>>, <<>>), SearchDoc(<<>>, <<>>)} :
               web = [search |-> doc, profile |-> links]
    /\ requests = <<>>
    /\ log = <<>>
    /\ total_pages = 0
    /\ page = 0
    /\ all_researchers = <<>>
    /\ researcher_index = 0
    /\ researchers_with_projects = <<>>
    /\ total_competitive_projects = 0

\* 1. result = scraper.get_total_pages("https://invalid-url-test.com")
TestGetTotalPages ==
    /\ pc = "get_total_pages"
    /\ \E ok \in BOOLEAN :
           /\ requests' = Append(requests, Request(call.search_url, ok, "get_total_pages"))
           /\ ret' = Append(ret, Returned(get_total_pages(ok, web.search)))
           /\ log' = IF ok THEN log
                     ELSE Append(log, LogEntry("error", "get_total_pages", call.search_url))
    /\ pc' = "get_research_projects"
    /\ UNCHANGED <<call, web, total_pages, page, all_researchers, researcher_index,
                   researchers_with_projects, total_competitive_projects>>

\* 2. projects = scraper.get_research_projects(".../nonexistent-researcher")
TestGetResearchProjects ==
    /\ pc = "get_research_projects"
    /\ \E ok \in BOOLEAN :
           \E outcomes \in [1..Len(web.profile) -> {"200", "404", "exception"}] :
               LET links == web.profile
                   texts == [n \in 1..Len(links) |-> ProjectPageText(links[n])]
               IN  /\ ok \/ \A n \in 1..Len(links) : outcomes[n] = "200"
                   /\ \A n \in 1..Len(links) :
                          (IsProjectLink(links[n]) /\ NeedsProjectPage(links[n]))
                              \/ outcomes[n] = "200"
                   /\ requests' = requests
                          \o <<Request(call.researcher_url, ok, "get_research_projects")>>
                          \o (IF ok THEN ProjectPageRequests(links, outcomes, 1) ELSE <<>>)
                   /\ ret' = Append(ret, get_research_projects(ok, links, outcomes, texts))
                   /\ log' = IF ok THEN log
                             ELSE Append(log, LogEntry("error", "get_research_projects",
                                                       call.researcher_url))
    /\ pc' = "extract_researchers_from_page"
    /\ UNCHANGED <<call, web, total_pages, page, all_researchers, researcher_index,
                   researchers_with_projects, total_competitive_projects>>

\* 3. researchers = scraper.extract_researchers_from_page("")
TestExtractResearchers ==
    /\ pc = "extract_researchers_from_page"
    /\ ret' = Append(ret, Returned(extract_researchers_from_page(call.html_content)))
    /\ pc' = "done"
    /\ UNCHANGED <<call, crawl_vars>>

NextErrorHandling ==
    \/ TestGetTotalPages
    \/ TestGetResearchProjects
    \/ TestExtractResearchers

SpecErrorHandling == InitErrorHandling /\ [][NextErrorHandling]_vars

\* C13: none of the three calls lets an exception out; get_total_pages
\* gives 1 when its request fails, get_research_projects gives the empty
\* list when the profile page cannot be fetched, and
\* extract_researchers_from_page gives the empty list for an empty page.
C13_NoExceptionEscapes ==
    /\ \A n \in 1..Len(ret) : ret[n].exc = ""
    /\ (Len(ret) >= 1 /\ ~requests[1].ok) => ret[1] = Returned(1)
    /\ (Len(ret) >= 2 /\ ~requests[2].ok) => ret[2] = Returned(<<>>)
    /\ Len(ret) >= 3 => ret[3] = Returned(<<>>)

\* The test ran to its end with both requests failing.
C13_Witness ==
    /\ pc = "done"
    /\ Len(requests) = 2
    /\ ~requests[1].ok
    /\ ~requests[2].ok
    /\ ret = <<Returned(1), Returned(<<>>), Returned(<<>>)>>

(***************************************************************************)
(* Properties of the project records                                       *)
(***************************************************************************)
\* Every project dict that comprehensive_data holds.
RecordedProjects ==
    get(ret, "research_projects", <<>>) \o get(ret, "competitive_projects", <<>>)

\* The classifier applied to the text fields a project dict records.
ClassifiedAgain(project) ==
    is_competitive_funding_by_html_structure(get(project, "funding_system", <<>>),
                                             get(project, "institution", <<>>),
                                             get(project, "project_type", <<>>))

\* C14: in every state of the pipeline, the is_competitive flag of every
\* recorded project equals the classifier applied to the funding text,
\* institution and project type that the same project records; the
\* filtered list holds exactly the flagged projects, in order, and the
\* summary leaves the records as they were.
C14_FlagIsClassification ==
    /\ \A n \in 1..Len(RecordedProjects) :
           RecordedProjects[n].is_competitive = ClassifiedAgain(RecordedProjects[n])
    /\ "competitive_projects" \in DOMAIN ret =>
           ret.competitive_projects
               = SelectSeq(ret.research_projects, LAMBDA project : ClassifiedAgain(project))

\* The run is over with a summary and two recorded projects, one of them
\* competitive, and the funding text of the other had a line filtered out.
C14_Witness ==
    /\ pc = "done"
    /\ ret.summary # EmptyDict
    /\ Len(ret.research_projects) = 2
    /\ Len(ret.competitive_projects) = 1
    /\ web.projects["r1"][2] = MixedLinesItem("r1")
    /\ ~ret.research_projects[2].is_competitive

(***************************************************************************)
(* ResearchMapIntegratedScraper: the extractors of the profile page.       *)
(* A definition list is the sequence of its <dt>/<dd> children: `text` is  *)
(* get_text() of the child and `a` the text of its first <a>, if any.      *)
(***************************************************************************)
Node(tag, text, a) == [tag |-> tag, text |-> text, a |-> a]

AffiliationLabel == <<"u6240", "u5C5E">>  \* 所属

\* tag.find_next_sibling(name): the position of the next sibling of that
\* name after position n, 0 for None.
find_next_sibling(nodes, n, name) ==
    LET later == {j \in (n + 1)..Len(nodes) : nodes[j].tag = name}
    IN  IF later = {} THEN 0 ELSE CHOOSE j \in later : \A k \in later : j <= k

\* find('dt', string=label): the first <dt> whose string is the label, 0
\* for None.
find_dt(nodes, label) ==
    LET found == {j \in 1..Len(nodes) : nodes[j].tag = "dt" /\ nodes[j].text = label}
    IN  IF found = {} THEN 0 ELSE CHOOSE j \in found : \A k \in found : j <= k

\* affiliations.append(affiliation_text) under `if affiliation_text`.
AppendIfText(affiliations, text) ==
    IF text # <<>> THEN Append(affiliations, text) ELSE affiliations

\* The `while current_dd` loop of the first method: the <dd> is read, and
\* the loop goes on to the <dd> after the next <dt> only if that <dt> is
\* empty.
RECURSIVE AffiliationLoop(_, _, _)
AffiliationLoop(nodes, current_dd, affiliations) ==
    IF current_dd = 0 THEN affiliations
    ELSE LET affiliation_text == strip(nodes[current_dd].text)
             appended == IF affiliation_text # <<>> /\ affiliation_text # AffiliationLabel
                         THEN Append(affiliations, affiliation_text)
                         ELSE affiliations
             next_dt == find_next_sibling(nodes, current_dd, "dt")
         IN  IF next_dt # 0 /\ strip(nodes[next_dt].text) = <<>>
             THEN AffiliationLoop(nodes, find_next_sibling(nodes, next_dt, "dd"), appended)
             ELSE appended

\* The first method: the <dt> 所属 of div#profile and the <dd> after it.
AffiliationsOfProfile(soup) ==
    IF ~soup.in_profile THEN <<>>
    ELSE LET affiliation_dt == find_dt(soup.nodes, AffiliationLabel)
         IN  IF affiliation_dt = 0 THEN <<>>
             ELSE AffiliationLoop(soup.nodes,
                                  find_next_sibling(soup.nodes, affiliation_dt, "dd"), <<>>)

\* The `while current_dt` loop of the second method: the <dd> after every
\* empty <dt> that follows.
RECURSIVE EmptyDtLoop(_, _, _)
EmptyDtLoop(nodes, current_dt, affiliations) ==
    LET next_dt == find_next_sibling(nodes, current_dt, "dt")
    IN  IF next_dt # 0 /\ strip(nodes[next_dt].text) = <<>>
        THEN LET next_dd == find_next_sibling(nodes, next_dt, "dd")
             IN  EmptyDtLoop(nodes, next_dt,
                             IF next_dd # 0
                             THEN AppendIfText(affiliations, strip(nodes[next_dd].text))
                             ELSE affiliations)
        ELSE affiliations

\* The second method: every <dt> of a dl.rm-cv-basic-dl whose stripped text
\* is 所属, from position n on.
RECURSIVE AffiliationsOfBasicDl(_, _, _)
AffiliationsOfBasicDl(nodes, n, affiliations) ==
    IF n > Len(nodes) THEN affiliations
    ELSE IF nodes[n].tag = "dt" /\ strip(nodes[n].text) = AffiliationLabel
         THEN LET dd == find_next_sibling(nodes, n, "dd")
                  first == IF dd # 0
                           THEN AppendIfText(affiliations, strip(nodes[dd].text))
                           ELSE affiliations
              IN  AffiliationsOfBasicDl(nodes, n + 1, EmptyDtLoop(nodes, n, first))
         ELSE AffiliationsOfBasicDl(nodes, n + 1, affiliations)

\* The strategies _extract_affiliations runs, in order.
AffiliationStrategies(soup) ==
    IF AffiliationsOfProfile(soup) = <<>> THEN <<"primary", "fallback">> ELSE <<"primary">>

\* _extract_affiliations(soup); the soup is one definition list, inside
\* div#profile or not, of class rm-cv-basic-dl or not.
extract_affiliations(soup) ==
    LET affiliations == AffiliationsOfProfile(soup)
    IN  IF affiliations = <<>>
        THEN IF soup.basic_dl THEN AffiliationsOfBasicDl(soup.nodes, 1, <<>>) ELSE <<>>
        ELSE affiliations
\* The stripped texts of the a.rm-cv-list-title links of an element.
LinkTexts(links) == [n \in 1..Len(links) |-> strip(links[n])]

KeywordsHeading == <<"u7814", "u7A76", "u30AD", "u30FC", "u30EF", "u30FC", "u30C9">>  \* 研究キーワード
AreasHeading == <<"u7814", "u7A76", "u5206", "u91CE">>  \* 研究分野

\* The first method of the two list extractors: the <h2> whose string is
\* the heading, and the links of the <ul> of the section's class after it.
\* `h2` holds the strings of the <h2> elements, `list` the links of that
\* <ul> (none: no such <ul>).
LinksOfSection(soup, heading) ==
    IF \E n \in 1..Len(soup.h2) : soup.h2[n] = heading
    THEN IF soup.list # <<>> THEN LinkTexts(soup.list[1]) ELSE <<>>
    ELSE <<>>

\* The second method: the panel <div> of the section's id and the links of
\* the body <div> after it.
LinksOfPanel(soup) ==
    IF soup.panel
    THEN IF soup.body # <<>> THEN LinkTexts(soup.body[1]) ELSE <<>>
    ELSE <<>>

\* The strategies a list extractor runs, in order.
ListStrategies(soup, heading) ==
    IF LinksOfSection(soup, heading) = <<>> THEN <<"primary", "fallback">> ELSE <<"primary">>

\* _extract_research_keywords(soup)
extract_research_keywords(soup) ==
    LET keywords == LinksOfSection(soup, KeywordsHeading)
    IN  IF keywords = <<>> THEN LinksOfPanel(soup) ELSE keywords

\* _extract_research_areas(soup)
extract_research_areas(soup) ==
    LET areas == LinksOfSection(soup, AreasHeading)
    IN  IF areas = <<>> THEN LinksOfPanel(soup) ELSE areas

OrcidLabel == <<"O", "R", "C", "I", "D", " ", "i", "D">>  \* ORCID iD
JGlobalLabel == <<"J", "-", "G", "L", "O", "B", "A", "L", " ", "I", "D">>  \* J-GLOBAL ID
MemberIdLabel == <<"r", "e", "s", "e", "a", "r", "c", "h", "m", "a", "p", "u4F1A", "u54E1", "I", "D">>  \* researchmap会員ID

\* _extract_orcid_id and _extract_jglobal_id: the text of the link of the
\* <dd> after the <dt> of the label, "" otherwise.
LinkedId(soup, label) ==
    LET element == find_dt(soup.nodes, label)
        dd == IF element = 0 THEN 0 ELSE find_next_sibling(soup.nodes, element, "dd")
    IN  IF dd # 0 /\ soup.nodes[dd].a # <<>> THEN strip(soup.nodes[dd].a[1]) ELSE <<>>

\* _extract_orcid_id(soup)
extract_orcid_id(soup) == LinkedId(soup, OrcidLabel)

\* _extract_jglobal_id(soup)
extract_jglobal_id(soup) == LinkedId(soup, JGlobalLabel)

\* _extract_member_id(soup): the text of the <dd> after the <dt> of the
\* label, "" otherwise.
extract_member_id(soup) ==
    LET member_id_element == find_dt(soup.nodes, MemberIdLabel)
        member_id_dd == IF member_id_element = 0 THEN 0
                        ELSE find_next_sibling(soup.nodes, member_id_element, "dd")
    IN  IF member_id_dd # 0 THEN strip(soup.nodes[member_id_dd].text) ELSE <<>>

\* The strategies the three id extractors run: there is one lookup and no
\* second method.
IdStrategies == <<"primary">>
(***************************************************************************)
(* The extractors applied to profile pages                                 *)
(***************************************************************************)
MaxSiblings == 4
MaxLinks == 2

SeqsUpTo(S, n) == UNION {[1..k -> S] : k \in 0..n}

DegreeLabel == <<"u5B66", "u4F4D">>  \* 学位
UniversityA == <<"A", "u5927", "u5B66">>  \* A大学
InstituteB == <<"B", "u7814", "u7A76", "u6240">>  \* B研究所

\* Children of the definition list with the affiliations.
AffiliationNodes ==
    {Node("dt", AffiliationLabel, <<>>),
     Node("dt", <<" ">> \o AffiliationLabel \o <<"\n">>, <<>>),
     Node("dt", <<>>, <<>>),
     Node("dt", DegreeLabel, <<>>),
     Node("dd", <<"\n", " ">> \o UniversityA \o <<" ">>, <<>>),
     Node("dd", InstituteB, <<>>),
     Node("dd", <<" ">>, <<>>)}

AffiliationSoups ==
    [nodes : SeqsUpTo(AffiliationNodes, MaxSiblings), in_profile : BOOLEAN, basic_dl : BOOLEAN]

\* Children of the definition list with the external ids.
IdNodes ==
    {Node("dt", OrcidLabel, <<>>),
     Node("dt", JGlobalLabel, <<>>),
     Node("dt", MemberIdLabel, <<>>),
     Node("dd", <<" ">> \o Orcid, <<Orcid \o <<" ">>>>),
     Node("dd", <<"R", "0", "1">>, <<>>)}

IdSoups == [nodes : SeqsUpTo(IdNodes, MaxSiblings)]

ListLinks == {<<" ", "A", "I", "\n">>, <<"I", "o", "T">>, <<" ">>}

ListSoups ==
    [h2 : SeqsUpTo({KeywordsHeading, AreasHeading, KeywordsHeading \o <<" ">>}, 1),
     list : SeqsUpTo(SeqsUpTo(ListLinks, MaxLinks), 1),
     panel : BOOLEAN,
     body : SeqsUpTo(SeqsUpTo(ListLinks, MaxLinks), 1)]

InitDetail ==
    /\ pc = "extract"
    /\ call \in [fn : {"_extract_affiliations"}, soup : AffiliationSoups]
           \cup [fn : {"_extract_research_keywords", "_extract_research_areas"},
                 soup : ListSoups]
           \cup [fn : {"_extract_orcid_id", "_extract_jglobal_id", "_extract_member_id"},
                 soup : IdSoups]
    /\ ret = <<>>
    /\ NoCrawl

\* One call of an extractor: its value, and the strategies it ran.
Extract(fn, value, strategies) ==
    /\ pc = "extract"
    /\ call.fn = fn
    /\ ret' = [value |-> value, strategies |-> strategies]
    /\ pc' = "done"
    /\ UNCHANGED <<call, crawl_vars>>

ExtractOrcidId == Extract("_extract_orcid_id", extract_orcid_id(call.soup), IdStrategies)
ExtractJGlobalId == Extract("_extract_jglobal_id", extract_jglobal_id(call.soup), IdStrategies)
ExtractMemberId == Extract("_extract_member_id", extract_member_id(call.soup), IdStrategies)
ExtractResearchKeywords ==
    Extract("_extract_research_keywords", extract_research_keywords(call.soup),
            ListStrategies(call.soup, KeywordsHeading))
ExtractResearchAreas ==
    Extract("_extract_research_areas", extract_research_areas(call.soup),
            ListStrategies(call.soup, AreasHeading))
ExtractAffiliations ==
    Extract("_extract_affiliations", extract_affiliations(call.soup),
            AffiliationStrategies(call.soup))

NextDetail ==
    \/ ExtractOrcidId
    \/ ExtractJGlobalId
    \/ ExtractMemberId
    \/ ExtractResearchKeywords
    \/ ExtractResearchAreas
    \/ ExtractAffiliations

SpecDetail == InitDetail /\ [][NextDetail]_vars

\* The values of the <dd> siblings that follow the first <dt> 所属, up to
\* the next <dt> that carries a label.
RECURSIVE ValuesUntilLabel(_, _)
ValuesUntilLabel(nodes, n) ==
    IF n > Len(nodes) THEN <<>>
    ELSE IF nodes[n].tag = "dt"
         THEN IF strip(nodes[n].text) = <<>> THEN ValuesUntilLabel(nodes, n + 1) ELSE <<>>
         ELSE AppendIfText(<<>>, strip(nodes[n].text)) \o ValuesUntilLabel(nodes, n + 1)

\* The <dt> elements of the list that read 所属.
AffiliationLabels(nodes) ==
    {n \in 1..Len(nodes) : nodes[n].tag = "dt" /\ strip(nodes[n].text) = AffiliationLabel}

\* C15: for a profile section whose definition list carries the label 所属
\* once, _extract_affiliations returns, in document order, the text of
\* every value node between that label and the next label, all of several
\* adjacent value nodes included.
C15_AllAdjacentValues ==
    (/\ pc = "done"
     /\ call.fn = "_extract_affiliations"
     /\ call.soup.in_profile
     /\ AffiliationLabels(call.soup.nodes) = {find_dt(call.soup.nodes, AffiliationLabel)})
    => ret.value = ValuesUntilLabel(call.soup.nodes,
                                    find_dt(call.soup.nodes, AffiliationLabel) + 1)
\* What the first method of the called extractor finds in the page.
PrimaryResult ==
    CASE call.fn = "_extract_affiliations" -> AffiliationsOfProfile(call.soup)
      [] call.fn = "_extract_research_keywords" -> LinksOfSection(call.soup, KeywordsHeading)
      [] call.fn = "_extract_research_areas" -> LinksOfSection(call.soup, AreasHeading)
      [] call.fn = "_extract_orcid_id" -> LinkedId(call.soup, OrcidLabel)
      [] call.fn = "_extract_jglobal_id" -> LinkedId(call.soup, JGlobalLabel)
      [] call.fn = "_extract_member_id" -> extract_member_id(call.soup)

\* C16: every extractor of the profile page returns what its primary
\* strategy finds when that is not empty, and runs a fallback strategy
\* exactly when the primary strategy finds nothing.
C16_PrimaryThenFallback ==
    pc = "done" =>
        /\ PrimaryResult # <<>> => ret.value = PrimaryResult
        /\ PrimaryResult = <<>> <=> ret.strategies = <<"primary", "fallback">>
        /\ PrimaryResult # <<>> <=> ret.strategies = <<"primary">>
(***************************************************************************)
(* extract_researchers_from_page applied to listing pages                  *)
(***************************************************************************)
MaxPageItems == 3

\* Items of a listing page: two researchers, an <li> without a card, a
\* card without a name link, a card whose name link has no text, and a
\* card whose name link has no href.
PageItemVariants ==
    {ResearcherItem(<<"R", "1">>, "r1"),
     ResearcherItem(<<"R", "2">>, "r2"),
     ListItem(FALSE, NameLink(<<"R", "3">>, <<"", "r3">>), <<>>),
     ListItem(TRUE, <<>>, <<Affiliation>>),
     ListItem(TRUE, NameLink(<<" ", "\n">>, <<"", "r4">>), <<Affiliation>>),
     ListItem(TRUE, NameLink(<<"R", "5">>, None), <<>>)}

InitListing ==
    /\ pc = "extract_researchers_from_page"
    /\ call \in [items : SeqsUpTo(PageItemVariants, MaxPageItems)]
    /\ ret = <<>>
    /\ NoCrawl

ExtractResearchersFromPage ==
    /\ pc = "extract_researchers_from_page"
    /\ ret' = extract_researchers_from_page(call.items)
    /\ pc' = "done"
    /\ UNCHANGED <<call, crawl_vars>>

NextListing == ExtractResearchersFromPage

SpecListing == InitListing /\ [][NextListing]_vars

\* The item has a card with a name link whose text is not blank.
HasPrimaryName(item) ==
    item.card /\ item.name_link # <<>> /\ strip(item.name_link[1].text) # <<>>

\* The name link of the item lacks its href.
Malformed(item) == item.card /\ item.name_link # <<>> /\ item.name_link[1].href = None

\* C17: the stubs of a page are those of the items that have a non-empty
\* primary name and are not malformed, one stub per such item and in the
\* order of the items; every other item is passed over and the items
\* after it are still read.
C17_StubIffNamed ==
    pc = "done" =>
        LET named == SelectSeq(call.items,
                               LAMBDA item : HasPrimaryName(item) /\ ~Malformed(item))
        IN  /\ Len(ret) = Len(named)
            /\ \A k \in 1..Len(named) :
                   /\ ret[k].name = strip(named[k].name_link[1].text)
                   /\ ret[k].researcher_url = ensure_absolute_url(named[k].name_link[1].href)

\* A page whose first item is malformed and whose other two items are the
\* researchers r2 and r1: two stubs, r2 before r1.
C17_Witness ==
    /\ pc = "done"
    /\ Len(call.items) = 3
    /\ Malformed(call.items[1])
    /\ Len(ret) = 2
    /\ ret[1].researcher_id = "r2"
    /\ ret[2].researcher_id = "r1"
(***************************************************************************)
(* normalize_vc_name applied to a name and to the name followed by         *)
(* legal-entity suffix tokens                                              *)
(***************************************************************************)
MaxSuffixes == 2

upper_char(c) ==
    IF \E i \in 1..Len(LowerCase) : LowerCase[i] = c
    THEN UpperCase[CHOOSE i \in 1..Len(LowerCase) : LowerCase[i] = c]
    ELSE c

\* str.upper()
upper(s) == [i \in 1..Len(s) |-> upper_char(s[i])]

\* The suffix tokens, as the patterns of normalize_vc_name write them.
SuffixTokens ==
    {<<"I", "n", "c", ".">>, <<"L", "L", "C">>, <<"L", "t", "d", ".">>, <<"C", "o", ".">>,
     <<"C", "o", "r", "p", ".">>, Kabushikigaisha, Yugengaisha, Godogaisha,
     <<"P", "T", "E">>, <<"L", "T", "D">>}

\* The tokens in the three letter cases.
SuffixesInAnyCase ==
    SuffixTokens \cup {upper(t) : t \in SuffixTokens} \cup {lower(t) : t \in SuffixTokens}

BareNames == {<<"A", "N", "R", "I">>, <<"S", "t", "e", "e", "l", " ", "F", "u", "n", "d">>}

\* The name followed by the tokens, separated by single spaces.
RECURSIVE WithSuffixes(_, _)
WithSuffixes(name, suffixes) ==
    IF suffixes = <<>> THEN name
    ELSE WithSuffixes(name \o <<" ">> \o Head(suffixes), Tail(suffixes))

InitSuffix ==
    /\ pc = "normalize"
    /\ call \in [vc_name : BareNames, suffixes : SeqsUpTo(SuffixesInAnyCase, MaxSuffixes)]
    /\ ret = <<>>
    /\ NoCrawl

NormalizeBoth ==
    /\ pc = "normalize"
    /\ ret' = [bare |-> normalize_vc_name(call.vc_name),
               suffixed |-> normalize_vc_name(WithSuffixes(call.vc_name, call.suffixes))]
    /\ pc' = "done"
    /\ UNCHANGED <<call, crawl_vars>>

NextSuffix == NormalizeBoth

SpecSuffix == InitSuffix /\ [][NextSuffix]_vars

\* C18: a name followed by legal-entity suffix tokens, in any letter case
\* and in any order, normalizes to the same string as the name alone.
C18_SuffixesStripped == pc = "done" => ret.suffixed = ret.bare
(***************************************************************************)
(* Properties of the researcher id                                         *)
(***************************************************************************)
\* C19: the id a stub got when the listing was parsed is the id that every
\* later record reports: the aggregated record of the researcher in the
\* crawl, and the summary of the comprehensive data of the researcher.
C19_IdKept ==
    /\ \A k \in 1..Len(researchers_with_projects) :
           researchers_with_projects[k].researcher_id = all_researchers[k].researcher_id
    /\ (/\ pc = "done"
        /\ "summary" \in DOMAIN ret
        /\ ret.summary # EmptyDict
        /\ "researcher_id" \in DOMAIN ret.basic_info)
       => /\ ret.summary.researcher_id # NotAvailable
          /\ ret.summary.researcher_id = ret.basic_info.researcher_id
(***************************************************************************)
(* get_researchers_from_all_pages on listings of three pages               *)
(***************************************************************************)
\* A second page served after the listing moved on by one result (it
\* begins with the last researcher of page 1), and a page whose name links
\* end with a slash.
ShiftedPage2Items == <<ResearcherItem(<<"R", "2">>, "r2"), ResearcherItem(<<"R", "3">>, "r3")>>
SlashPageItems ==
    <<ListItem(TRUE, NameLink(<<"R", "6">>, <<"", "r6", "">>), <<Affiliation>>),
      ListItem(TRUE, NameLink(<<"R", "7">>, <<"", "r7", "">>), <<Affiliation>>)>>

LaterPageVariants == {Page2Items, Page3Items, ShiftedPage2Items, SlashPageItems}

InitAllPages ==
    /\ StartCrawl
    /\ call = [search_url |-> <<>>, max_researchers |-> <<>>]
    /\ web \in [search : {SearchDoc(<<TotalCount125>>, <<>>)},
                projects : {SiteProjects},
                later_pages : [1..2 -> LaterPageVariants]]

\* return all_researchers
ReturnAllResearchers ==
    /\ pc = "pages"
    /\ page > total_pages
    /\ ret' = all_researchers
    /\ pc' = "done"
    /\ UNCHANGED <<call, crawl_vars>>

NextAllPages ==
    \/ GetTotalPages
    \/ FetchListingPage
    \/ ReturnAllResearchers

SpecAllPages == InitAllPages /\ [][NextAllPages]_vars

\* C20: no two stubs that get_researchers_from_all_pages returns have the
\* same researcher_id.
C20_IdsUnique ==
    pc = "done" =>
        \A j \in 1..Len(ret) : \A k \in 1..Len(ret) :
            ret[j].researcher_id = ret[k].researcher_id => j = k
(***************************************************************************)
(* The delay between requests                                              *)
(***************************************************************************)
\* ScrapingConfig.REQUEST_DELAY_MIN, REQUEST_DELAY_MAX (seconds)
REQUEST_DELAY_MIN == 1
REQUEST_DELAY_MAX == 3

\* The durations _make_request may sleep before it returns or raises:
\* time.sleep(random.uniform(MIN, MAX)) stands after raise_for_status(), so
\* a request that raises is followed by no sleep.
make_request_sleep(ok) ==
    IF ok THEN REQUEST_DELAY_MIN..REQUEST_DELAY_MAX ELSE {}

\* C21: every request of a listing page that is followed by the request of
\* another listing page, failed or not, is followed first by a sleep of a
\* duration between REQUEST_DELAY_MIN and REQUEST_DELAY_MAX.
C21_DelayAfterEveryPage ==
    \A n \in 1..(Len(ListingRequests) - 1) :
        /\ make_request_sleep(ListingRequests[n].ok) # {}
        /\ make_request_sleep(ListingRequests[n].ok)
               \subseteq REQUEST_DELAY_MIN..REQUEST_DELAY_MAX
(***************************************************************************)
(* startup_db_grants_scraper.main: the loop over the company names.  `ret` *)
(* holds the local variables of main, the attempts made (company index,    *)
(* value of `attempt`, whether process_company returned) and the sleeps    *)
(* after failed attempts, in tenths of a second.                           *)
(***************************************************************************)
MaxCompanies == 2
MaxRetry == 2

\* The loop condition, had main made a single attempt per company.
AttemptAllowedOnce(attempt, retry) == attempt < 1
\* while attempt <= args.retry
AttemptAllowed(attempt, retry) == attempt <= retry

\* time.sleep(1.0 + attempt * 0.7), in tenths of a second
BackoffTenths(attempt) == 10 + attempt * 7

\* The news items process_company finds for a company.
NewsItemsOf(name) == <<[company_name |-> name]>>

InitCompanies ==
    /\ pc = "process_company"
    /\ call \in [names : SeqsUpTo({"A", "B"}, MaxCompanies), retry : 0..MaxRetry]
    /\ ret = [idx |-> 1, attempt |-> 0, last_items |-> <<>>, returned |-> FALSE,
              all_items |-> <<>>, attempts |-> <<>>, sleeps |-> <<>>]
    /\ NoCrawl

\* One pass of the while loop: process_company returns (break) or raises
\* (attempt += 1, sleep).
ProcessCompany ==
    /\ pc = "process_company"
    /\ ret.idx <= Len(call.names)
    /\ ~ret.returned
    /\ AttemptAllowed(ret.attempt, call.retry)
    /\ \E ok \in BOOLEAN :
           LET made == Append(ret.attempts,
                              [idx |-> ret.idx, attempt |-> ret.attempt, ok |-> ok])
           IN  ret' = IF ok
                      THEN [ret EXCEPT !.attempts = made,
                                       !.last_items = NewsItemsOf(call.names[ret.idx]),
                                       !.returned = TRUE]
                      ELSE [ret EXCEPT !.attempts = made,
                                       !.attempt = ret.attempt + 1,
                                       !.sleeps = Append(ret.sleeps,
                                                      [idx |-> ret.idx,
                                                       tenths |-> BackoffTenths(ret.attempt + 1)])]
    /\ UNCHANGED <<pc, call, crawl_vars>>

\* The while loop is over (break, or attempt > args.retry): the items are
\* added and the loop goes on with the next name.
NextCompany ==
    /\ pc = "process_company"
    /\ ret.idx <= Len(call.names)
    /\ ret.returned \/ ~AttemptAllowed(ret.attempt, call.retry)
    /\ ret' = [ret EXCEPT !.all_items = ret.all_items \o ret.last_items,
                          !.idx = ret.idx + 1,
                          !.attempt = 0,
                          !.last_items = <<>>,
                          !.returned = FALSE]
    /\ UNCHANGED <<pc, call, crawl_vars>>

\* The for loop is over: the results are saved.
SaveResults ==
    /\ pc = "process_company"
    /\ ret.idx > Len(call.names)
    /\ pc' = "done"
    /\ UNCHANGED <<call, ret, crawl_vars>>

NextCompanies == ProcessCompany \/ NextCompany \/ SaveResults

(***************************************************************************)
(* The crawl and the company loop, each from its own initial states        *)
(***************************************************************************)
InitAttempts == InitCrawl \/ InitCompanies

NextAttempts == NextCrawl \/ NextCompanies

SpecAttempts == InitAttempts /\ [][NextAttempts]_vars

\* The attempts made for the company at position idx.
AttemptsOf(idx) ==
    IF "attempts" \in DOMAIN ret
    THEN SelectSeq(ret.attempts, LAMBDA made : made.idx = idx)
    ELSE <<>>

\* No URL is requested twice by the same method of the crawl.
CrawlUnitsOnce ==
    \A j \in 1..Len(requests) : \A k \in 1..Len(requests) :
        (requests[j].url = requests[k].url /\ requests[j].by = requests[k].by) => j = k
\* The companies main is through with.
FinishedCompanies == IF "attempts" \in DOMAIN ret THEN 1..(ret.idx - 1) ELSE {}

\* The sleeps after the failed attempts for the company at position idx.
SleepsOf(idx) ==
    IF "sleeps" \in DOMAIN ret
    THEN SelectSeq(ret.sleeps, LAMBDA slept : slept.idx = idx)
    ELSE <<>>

\* The statement of C22 as it was made: every unit, a company lookup
\* included, is attempted at most once and no sleep follows a failure.
C22_AtMostOnce ==
    /\ CrawlUnitsOnce
    /\ \A idx \in FinishedCompanies : Len(AttemptsOf(idx)) <= 1 /\ SleepsOf(idx) = <<>>

\* C22: no listing page, profile page or research_projects page is
\* requested twice by the same method of the crawl; a company lookup is
\* attempted until it returns, at most args.retry + 1 times, every failed
\* attempt being followed by a sleep of 1.0 + 0.7 * attempt seconds, and
\* main then goes on with the next company.
C22_BoundedAttempts ==
    /\ CrawlUnitsOnce
    /\ \A idx \in FinishedCompanies :
           LET made == AttemptsOf(idx)
               failed == SelectSeq(made, LAMBDA a : ~a.ok)
           IN  /\ Len(made) \in 1..(call.retry + 1)
               /\ \A n \in 1..(Len(made) - 1) : ~made[n].ok
               /\ made[Len(made)].ok \/ Len(made) = call.retry + 1
               /\ Len(SleepsOf(idx)) = Len(failed)
               /\ \A n \in 1..Len(failed) : SleepsOf(idx)[n].tenths = 10 + 7 * n

\* main is over with retry = 1: the first company failed once and was
\* looked up again with success, the second failed twice and was given up.
C22_Witness ==
    /\ pc = "done"
    /\ "attempts" \in DOMAIN ret
    /\ call.retry = 1
    /\ Len(call.names) = 2
    /\ Len(AttemptsOf(1)) = 2
    /\ AttemptsOf(1)[2].ok
    /\ Len(AttemptsOf(2)) = 2
    /\ ~AttemptsOf(2)[2].ok
    /\ Len(ret.all_items) = 1
(***************************************************************************)
(* The classifier applied to funding texts in mixed letter case            *)
(***************************************************************************)
\* What stands before and after the middle of a funding text.
TextPrefixes == {<<>>, <<"J", "S", "P", "S", " ">>, <<"K", "a", "k", "e", "n", "h", "i", "\n">>}
TextSuffixes == {<<>>, <<" ", "(", "C", ")">>, <<" ", "G", "r", "a", "n", "t">>}
TextMiddles ==
    {competitive_indicators[n] : n \in 1..Len(competitive_indicators)}
        \cup {OwnResearch, <<"K", "A", "K", "E", "N", "H", "I">>}

InitKeywordGate ==
    /\ pc = "classify"
    /\ call \in [funding_system : {a \o m \o z : a \in TextPrefixes, m \in TextMiddles,
                                                 z \in TextSuffixes},
                 institution : {None, PrivateCompany},
                 project_type : {None, InHouseResearch}]
    /\ ret = <<>>
    /\ NoCrawl

SpecKeywordGate == InitKeywordGate /\ [][NextClassify]_vars

\* The keyword stands somewhere in the text, letter case ignored on both
\* sides.
OccursIgnoringCase(text, keyword) ==
    \E i \in 1..(Len(text) - Len(keyword) + 1) :
        \A j \in 1..Len(keyword) : lower_char(text[i + j - 1]) = lower_char(keyword[j])

\* C23: a funding text in which a competitive indicator occurs, letter
\* case ignored, is classified competitive.
C23_KeywordIgnoringCase ==
    pc = "done" =>
        \A n \in 1..Len(competitive_indicators) :
            OccursIgnoringCase(call.funding_system, competitive_indicators[n]) => ret.result

\* A text with capital letters before and after an indicator is classified
\* competitive by the third check, institution and project type being of no
\* help.
C23_Witness ==
    /\ pc = "done"
    /\ call.funding_system = <<"J", "S", "P", "S", " ">> \o Kakenhi \o <<" ", "(", "C", ")">>
    /\ call.institution = PrivateCompany
    /\ call.project_type = InHouseResearch
    /\ ret = [result |-> TRUE, gate |-> "funding_system"]
(***************************************************************************)
(* get_research_projects on profile pages whose project links and project  *)
(* pages vary                                                              *)
(***************************************************************************)
JstTitle == <<"J", "S", "T", " ">> \o TitleB  \* JST 課題B

TitledLinks ==
    {Link(TitleA, <<"", "r1", "research_projects", "1">>),
     Link(JstTitle, <<"", "r1", "research_projects", "2">>),
     Link(<<" ">> \o KibanC \o <<"\n">>, <<"", "r1", "research_projects", "12">>),
     Link(MoreLabel, <<"", "r1", "research_projects", "2">>)}

\* Texts of project pages: two with a keyword, one of them in capital
\* letters, and one without.
ProjectPageTexts == {KakenhiKibanC, <<"A", "M", "S", "T">>, JointResearch}

InitProjects ==
    /\ pc = "get_research_projects"
    /\ call = [researcher_url |-> Url(BASE_URL \o <<"r1">>)]
    /\ ret = <<>>
    /\ \E n \in 0..MaxProfileLinks :
           \E links \in [1..n -> TitledLinks], texts \in [1..n -> ProjectPageTexts] :
               web = [profile |-> links, project_pages |-> texts]
    /\ requests = <<>>
    /\ log = <<>>
    /\ total_pages = 0
    /\ page = 0
    /\ all_researchers = <<>>
    /\ researcher_index = 0
    /\ researchers_with_projects = <<>>
    /\ total_competitive_projects = 0

\* One call of get_research_projects; outcomes[n] is that of the request
\* for the project page of links[n], where that request is made.
GetResearchProjects ==
    /\ pc = "get_research_projects"
    /\ \E ok \in BOOLEAN :
           \E outcomes \in [1..Len(web.profile) -> {"200", "404", "exception"}] :
               LET links == web.profile
               IN  /\ ok \/ \A n \in 1..Len(links) : outcomes[n] = "200"
                   /\ \A n \in 1..Len(links) :
                          (IsProjectLink(links[n]) /\ NeedsProjectPage(links[n]))
                              \/ outcomes[n] = "200"
                   /\ requests' = requests
                          \o <<Request(call.researcher_url, ok, "get_research_projects")>>
                          \o (IF ok THEN ProjectPageRequests(links, outcomes, 1) ELSE <<>>)
                   /\ ret' = [result |-> get_research_projects(ok, links, outcomes,
                                                              web.project_pages),
                              outcomes |-> outcomes]
                   /\ log' = IF ok THEN log
                             ELSE Append(log, LogEntry("error", "get_research_projects",
                                                       call.researcher_url))
    /\ pc' = "done"
    /\ UNCHANGED <<call, web, total_pages, page, all_researchers, researcher_index,
                   researchers_with_projects, total_competitive_projects>>

NextProjects == GetResearchProjects

SpecProjects == InitProjects /\ [][NextProjects]_vars

\* Some competitive keyword stands in the text, letter case ignored.
KeywordIn(text) ==
    \E k \in 1..Len(competitive_keywords) : OccursIgnoringCase(text, competitive_keywords[k])

\* The positions of the links that stand for a project: a link with a
\* title other than the "more" label.
ProjectPositions ==
    {n \in 1..Len(web.profile) :
        strip(web.profile[n].text) \notin {<<>>, MoreLabel}}

\* The number of project positions up to n.
RankOf(n) == Cardinality({m \in ProjectPositions : m <= n})

\* C24: when the profile page arrives, every project link gives one
\* project, in order.  A project whose title holds a competitive keyword,
\* letter case ignored, is competitive and its page is not requested; for
\* any other project the page is requested once, and the project is
\* competitive exactly if the status is 200 and the text of the page holds
\* a keyword; after a failed request or another status it is returned as
\* not competitive.
C24_TitleThenPage ==
    (pc = "done" /\ requests[1].ok) =>
        LET projects == ret.result.value[1]
            page_requests == SubSeq(requests, 2, Len(requests))
            fetched == {n \in ProjectPositions : ~KeywordIn(strip(web.profile[n].text))}
        IN  /\ Len(projects) = Cardinality(ProjectPositions)
            /\ Len(page_requests) = Cardinality(fetched)
            /\ \A n \in ProjectPositions :
                   LET project == projects[RankOf(n)]
                       position == Cardinality({m \in fetched : m <= n})
                   IN  /\ project.title = strip(web.profile[n].text)
                       /\ n \notin fetched => project.is_competitive
                       /\ n \in fetched =>
                              /\ page_requests[position].url = Url(project.project_url)
                              /\ project.is_competitive
                                     <=> (ret.outcomes[n] = "200"
                                          /\ KeywordIn(web.project_pages[n]))

\* Two projects are returned: the first is competitive by its title (JST)
\* and its page was not requested, the page of the second came with status
\* 404 and the project is returned as not competitive although the text of
\* the page has a keyword.
C24_Witness ==
    /\ pc = "done"
    /\ requests[1].ok
    /\ Len(web.profile) = 2
    /\ web.profile[1].text = JstTitle
    /\ web.profile[2].text = TitleA
    /\ web.project_pages[2] = KakenhiKibanC
    /\ ret.outcomes[2] = "404"
    /\ Len(requests) = 2
    /\ Len(ret.result.value[1]) = 2
    /\ ret.result.value[1][1].is_competitive
    /\ ~ret.result.value[1][2].is_competitive
(***************************************************************************)
(* VCPortfolioWithFunding.create_comprehensive_portfolio.  A company of    *)
(* integrated_data is its vc_name and its company_name; of a VC and of an  *)
(* output entry the name and the companies are kept.  The articles that    *)
(* search_prtimes_funding adds to a company do not bear on which entry the *)
(* company goes to and are left out.                                       *)
(***************************************************************************)
\* The keys of vc_companies, in the order of insertion.
RECURSIVE GroupKeys(_)
GroupKeys(integrated_data) ==
    IF integrated_data = <<>> THEN <<>>
    ELSE LET before == GroupKeys(SubSeq(integrated_data, 1, Len(integrated_data) - 1))
             vc_name == integrated_data[Len(integrated_data)].vc_name
         IN  IF \E n \in 1..Len(before) : before[n] = vc_name THEN before
             ELSE Append(before, vc_name)

\* vc_companies[vc_name]
GroupOf(integrated_data, vc_name) ==
    SelectSeq(integrated_data, LAMBDA company : company.vc_name = vc_name)

\* The fuzzy loop over vc_companies.items() from key k on: the companies of
\* the first key for which find_matching_vc(key, [vc]) gives a VC.
RECURSIVE FuzzyGroup(_, _, _, _)
FuzzyGroup(integrated_data, keys, k, vc) ==
    IF k > Len(keys) THEN <<>>
    ELSE IF find_matching_vc(keys[k], <<vc>>).value # <<>>
         THEN GroupOf(integrated_data, keys[k])
         ELSE FuzzyGroup(integrated_data, keys, k + 1, vc)

\* matching_companies of one VC of the list.
matching_companies(integrated_data, vc) ==
    LET keys == GroupKeys(integrated_data)
    IN  IF \E n \in 1..Len(keys) : keys[n] = vc.vc_name
        THEN GroupOf(integrated_data, vc.vc_name)
        ELSE FuzzyGroup(integrated_data, keys, 1, vc)

\* The entry of comprehensive_data for one VC.
PortfolioEntry(integrated_data, vc) ==
    LET companies == matching_companies(integrated_data, vc)
    IN  [vc_name |-> vc.vc_name,
         portfolio_companies |->
             [n \in 1..Len(companies) |-> [company_name |-> companies[n].company_name]],
         total_portfolio_companies |-> Len(companies)]

create_comprehensive_portfolio(vc_list, integrated_data) ==
    [n \in 1..Len(vc_list) |-> PortfolioEntry(integrated_data, vc_list[n])]

MaxIntegrated == 2

PortfolioNames ==
    {Anri, AnriInc, <<"A", "N", "R", "I", " ", "F", "u", "n", "d">>, Unrelated}

\* Company n of the integrated data is named by its position.
IntegratedData ==
    UNION {{[n \in 1..m |-> [vc_name |-> names[n], company_name |-> n]] :
                names \in [1..m -> PortfolioNames]} : m \in 0..MaxIntegrated}

InitPortfolio ==
    /\ pc = "create_comprehensive_portfolio"
    /\ call \in [vc_list : UNION {[1..n -> [vc_name : PortfolioNames]] : n \in 0..MaxCorpus},
                 integrated_data : IntegratedData]
    /\ ret = <<>>
    /\ NoCrawl

CreateComprehensivePortfolio ==
    /\ pc = "create_comprehensive_portfolio"
    /\ ret' = create_comprehensive_portfolio(call.vc_list, call.integrated_data)
    /\ pc' = "done"
    /\ UNCHANGED <<call, crawl_vars>>

NextPortfolio == CreateComprehensivePortfolio

SpecPortfolio == InitPortfolio /\ [][NextPortfolio]_vars

\* The entries of the output that hold the company.
EntriesWith(company_name) ==
    {n \in 1..Len(ret) :
        \E m \in 1..Len(ret[n].portfolio_companies) :
            ret[n].portfolio_companies[m].company_name = company_name}

\* C25: every company of the integrated data is in the portfolio of at most
\* one entry of the output.
C25_OneOwner ==
    pc = "done" =>
        \A n \in 1..Len(call.integrated_data) :
            Cardinality(EntriesWith(call.integrated_data[n].company_name)) <= 1
(***************************************************************************)
(* The counts of the result of scrape_all_researchers_and_projects         *)
(***************************************************************************)
\* The projects, in their order, whose is_competitive is TRUE.
RECURSIVE CompetitiveSubsequence(_)
CompetitiveSubsequence(projects) ==
    IF projects = <<>> THEN <<>>
    ELSE (IF "is_competitive" \in DOMAIN Head(projects)
             /\ Head(projects).is_competitive = TRUE
          THEN <<Head(projects)>> ELSE <<>>)
         \o CompetitiveSubsequence(Tail(projects))

RECURSIVE SumOfCounts(_)
SumOfCounts(records) ==
    IF records = <<>> THEN 0
    ELSE Head(records).competitive_project_count + SumOfCounts(Tail(records))

ScrapeAllReturned == pc = "done" /\ "researchers" \in DOMAIN ret

\* C26: in the result of scrape_all_researchers_and_projects the
\* competitive_projects of every record are the projects of its all_projects
\* with is_competitive true, in their order, competitive_project_count is
\* their number, and total_competitive_projects is the sum of the counts of
\* the returned records.
C26_CountsConsistent ==
    ScrapeAllReturned =>
        /\ \A n \in 1..Len(ret.researchers) :
               /\ ret.researchers[n].competitive_projects
                      = CompetitiveSubsequence(ret.researchers[n].all_projects)
               /\ ret.researchers[n].competitive_project_count
                      = Len(CompetitiveSubsequence(ret.researchers[n].all_projects))
        /\ ret.total_competitive_projects = SumOfCounts(ret.researchers)

\* A result with two records or more, one of them with a competitive and a
\* non-competitive project, and competitive projects in more than one record.
C26_Witness ==
    /\ ScrapeAllReturned
    /\ \E n \in 1..Len(ret.researchers) :
           /\ ret.researchers[n].competitive_project_count > 0
           /\ ret.researchers[n].competitive_project_count
                  < Len(ret.researchers[n].all_projects)
    /\ \E n, m \in 1..Len(ret.researchers) :
           /\ n # m
           /\ ret.researchers[n].competitive_project_count > 0
           /\ ret.researchers[m].competitive_project_count > 0
(***************************************************************************)
(* How often a listing page is requested                                   *)
(***************************************************************************)
DiscoveryRequests == RequestsBy("get_total_pages")

\* The requests of page discovery and of page iteration for the URL.
ListingFetchesOf(url) ==
    {<<"get_total_pages", n>> :
         n \in {k \in 1..Len(DiscoveryRequests) : DiscoveryRequests[k].url = url}}
    \cup
    {<<"get_researchers_from_all_pages", n>> :
         n \in {k \in 1..Len(ListingRequests) : ListingRequests[k].url = url}}

ListingUrls ==
    {DiscoveryRequests[n].url : n \in 1..Len(DiscoveryRequests)}
        \cup {ListingRequests[n].url : n \in 1..Len(ListingRequests)}

\* The statement of C27 as it was made: page discovery and page iteration
\* together request no listing page URL twice.
C27_EachUrlOnce ==
    \A url \in ListingUrls : Cardinality(ListingFetchesOf(url)) <= 1

\* C27: page iteration requests every listing page URL at most once and
\* page discovery requests the URL of page 1 once, and nothing else; once
\* the page loop is past page 1 the URL of page 1 has been requested twice,
\* once by each of the two, and the URL of every later page at most once.
C27_FirstPageTwice ==
    /\ \A j, k \in 1..Len(ListingRequests) :
           ListingRequests[j].url = ListingRequests[k].url => j = k
    /\ Len(DiscoveryRequests) <= 1
    /\ \A n \in 1..Len(DiscoveryRequests) : DiscoveryRequests[n].url = search_url
    /\ \A url \in ListingUrls \ {search_url} : Cardinality(ListingFetchesOf(url)) <= 1
    /\ page > 1 =>
           ListingFetchesOf(search_url)
               = {<<"get_total_pages", 1>>, <<"get_researchers_from_all_pages", 1>>}

\* The page loop has gone through three pages after a page discovery.
C27_Witness ==
    /\ Len(DiscoveryRequests) = 1
    /\ Len(ListingRequests) = 3
    /\ page > 3
(***************************************************************************)
(* PortfolioScraper.scrape_url and scrape_urls.  A URL is a string; a page *)
(* is the link find_portfolio_tab finds in it (or <<>>), whether a <meta>  *)
(* content names a portfolio, the company names the selectors and          *)
(* _filter_company_names leave, and its <img> elements, each with its src  *)
(* and the href of the <a> around it (or <<>>).  A fetch is recorded with  *)
(* its URL, the strategy that made it and whether it delivered the page.   *)
(* A value that may be None is <<>> or <<value>>.                           *)
(***************************************************************************)
SitePage(tab, meta, companies, images) ==
    [tab |-> tab, meta |-> meta, companies |-> companies, images |-> images]

PortfolioSite ==
    [vc1 |-> SitePage(<<"vc1/portfolio">>, FALSE, {}, <<>>),
     vc2 |-> SitePage(<<>>, FALSE, {"c2"}, <<>>),
     vc3 |-> SitePage(<<>>, TRUE, {"c3"},
                      <<[src |-> "vc3/logo.png", href |-> <<>>]>>)]
    @@ ("vc1/portfolio" :>
            SitePage(<<>>, FALSE, {"c1"},
                     <<[src |-> "vc1/c1.png", href |-> <<"vc1/c1">>]>>))
    @@ ("vc1/c1" :> SitePage(<<>>, FALSE, {"c1 Inc."}, <<>>))

\* The URLs with one of portfolio_keywords in them.
PortfolioNamedUrls == {"vc1/portfolio"}

Fetch(url, by, ok) == [url |-> url, by |-> by, ok |-> ok]

\* The soup (or <<>> for None) and the fetches made.
scrape_with_requests(url, ok) ==
    [soup |-> IF ok THEN <<PortfolioSite[url]>> ELSE <<>>,
     fetches |-> <<Fetch(url, "requests", ok)>>]

\* Without a driver nothing is fetched.
scrape_with_selenium(url, ok, driver) ==
    IF ~driver THEN [soup |-> <<>>, fetches |-> <<>>]
    ELSE [soup |-> IF ok THEN <<PortfolioSite[url]>> ELSE <<>>,
          fetches |-> <<Fetch(url, "selenium", ok)>>]

\* The two strategies had the browser been tried first.
SeleniumThenRequests(url, requests_ok, selenium_ok, driver) ==
    LET first == scrape_with_selenium(url, selenium_ok, driver)
        second == scrape_with_requests(url, requests_ok)
    IN  IF first.soup # <<>> THEN first @@ [method |-> <<"selenium">>]
        ELSE [soup |-> second.soup,
              fetches |-> first.fetches \o second.fetches,
              method |-> IF second.soup # <<>> THEN <<"requests">> ELSE <<>>]

\* soup = scrape_with_requests(url); if not soup: soup = scrape_with_selenium(url)
RequestsThenSelenium(url, requests_ok, selenium_ok, driver) ==
    LET first == scrape_with_requests(url, requests_ok)
        second == scrape_with_selenium(url, selenium_ok, driver)
    IN  IF first.soup # <<>> THEN first @@ [method |-> <<"requests">>]
        ELSE [soup |-> second.soup,
              fetches |-> first.fetches \o second.fetches,
              method |-> IF second.soup # <<>> THEN <<"selenium">> ELSE <<>>]

find_portfolio_tab(soup, base_url) ==
    IF soup.tab # <<>> THEN soup.tab
    ELSE IF base_url \in PortfolioNamedUrls \/ soup.meta THEN <<base_url>>
    ELSE <<>>

\* extract_text_from_image: the download of the image and the text the OCR
\* reads in it, None when either fails.
extract_text_from_image(img_url, ok) ==
    [text |-> IF ok THEN {"ocr:" \o img_url} ELSE {},
     fetches |-> <<Fetch(img_url, "requests", ok)>>]

\* click_image_and_extract_company: the page behind the image is opened in
\* the browser; the pages behind the images of PortfolioSite have one
\* company name each.
click_image_and_extract_company(img, driver, ok) ==
    IF ~driver \/ img.href = <<>> THEN [company |-> {}, fetches |-> <<>>]
    ELSE [company |-> IF ok THEN PortfolioSite[img.href[1]].companies ELSE {},
          fetches |-> <<Fetch(img.href[1], "driver.get", ok)>>]

\* extract_companies_from_page, from image k on (the OCR branch).
RECURSIVE ImageLoop(_, _, _, _)
ImageLoop(images, k, driver, outcome) ==
    IF k > Len(images) THEN [companies |-> {}, fetches |-> <<>>]
    ELSE LET ocr == extract_text_from_image(images[k].src, outcome.image)
             click == click_image_and_extract_company(images[k], driver, outcome.click)
             rest == ImageLoop(images, k + 1, driver, outcome)
         IN  [companies |-> ocr.text \cup click.company \cup rest.companies,
              fetches |-> ocr.fetches \o click.fetches \o rest.fetches]

extract_companies_from_page(soup, use_ocr, driver, outcome) ==
    LET from_images == IF use_ocr THEN ImageLoop(soup.images, 1, driver, outcome)
                       ELSE [companies |-> {}, fetches |-> <<>>]
    IN  [companies |-> soup.companies \cup from_images.companies,
         fetches |-> from_images.fetches]

MainPageError == "main page not fetched"
PortfolioPageError == "portfolio page not fetched"

\* scrape_url: the result dict and the fetches made on the way.
scrape_url(url, use_ocr, driver, outcome) ==
    LET result == [url |-> url, portfolio_url |-> <<>>, companies |-> {},
                   error |-> <<>>, method |-> <<>>, ocr_used |-> FALSE]
        main == RequestsThenSelenium(url, outcome.requests, outcome.selenium, driver)
    IN  IF main.soup = <<>>
        THEN [result |-> [result EXCEPT !.error = <<MainPageError>>],
              fetches |-> main.fetches]
        ELSE
        LET portfolio_url == find_portfolio_tab(main.soup[1], url)
        IN  IF portfolio_url # <<>>
            THEN LET portfolio_soup == RequestsThenSelenium(portfolio_url[1],
                                 outcome.page_requests, outcome.page_selenium, driver)
                 IN  IF portfolio_soup.soup # <<>>
                     THEN LET found == extract_companies_from_page(
                                           portfolio_soup.soup[1], use_ocr, driver, outcome)
                          IN  [result |-> [result EXCEPT
                                               !.method = main.method,
                                               !.portfolio_url = portfolio_url,
                                               !.companies = found.companies,
                                               !.ocr_used = use_ocr],
                               fetches |-> main.fetches \o portfolio_soup.fetches \o found.fetches]
                     ELSE [result |-> [result EXCEPT
                                           !.method = main.method,
                                           !.portfolio_url = portfolio_url,
                                           !.error = <<PortfolioPageError>>],
                           fetches |-> main.fetches \o portfolio_soup.fetches]
            ELSE LET found == extract_companies_from_page(
                                  main.soup[1], use_ocr, driver, outcome)
                 IN  [result |-> [result EXCEPT !.method = main.method,
                                                !.companies = found.companies,
                                                !.ocr_used = use_ocr],
                      fetches |-> main.fetches \o found.fetches]

MaxUrls == 2

FetchOutcomes ==
    [requests : BOOLEAN, selenium : BOOLEAN, page_requests : BOOLEAN,
     page_selenium : BOOLEAN, image : BOOLEAN, click : BOOLEAN]

\* ret holds the locals of scrape_urls: the position in urls, the results,
\* and for every URL the fetches that scrape_url made for it.
InitScrapeUrls ==
    /\ pc = "scrape_urls"
    /\ call \in [urls : SeqsUpTo({"vc1", "vc2", "vc3", "vc1/portfolio"}, MaxUrls),
                 use_ocr : BOOLEAN, driver : BOOLEAN]
    /\ ret = [i |-> 1, results |-> <<>>, fetches |-> <<>>]
    /\ NoCrawl

\* One iteration of `for i, url in enumerate(urls, 1)`.
ScrapeUrl ==
    /\ pc = "scrape_urls"
    /\ ret.i <= Len(call.urls)
    /\ \E outcome \in FetchOutcomes :
           LET scraped == scrape_url(call.urls[ret.i], call.use_ocr, call.driver, outcome)
           IN  ret' = [i |-> ret.i + 1,
                       results |-> Append(ret.results, scraped.result),
                       fetches |-> Append(ret.fetches, scraped.fetches)]
    /\ UNCHANGED <<pc, call, crawl_vars>>

\* return results
ReturnResults ==
    /\ pc = "scrape_urls"
    /\ ret.i > Len(call.urls)
    /\ pc' = "done"
    /\ UNCHANGED <<call, ret, crawl_vars>>

NextScrapeUrls == ScrapeUrl \/ ReturnResults

SpecScrapeUrls == InitScrapeUrls /\ [][NextScrapeUrls]_vars

\* In the fetches of one scrape_url every fetch made by one of the
\* strategies comes right after a failed plain HTTP fetch of the same URL.
AfterFailedRequests(fetches, strategies) ==
    \A k \in 1..Len(fetches) :
        fetches[k].by \in strategies =>
            /\ k > 1
            /\ fetches[k - 1] = Fetch(fetches[k].url, "requests", FALSE)

\* The strategy that delivered the main page of the URL at position n.
DeliveredBy(n) ==
    LET fetches == ret.fetches[n]
    IN  IF fetches[1].ok THEN <<"requests">>
        ELSE IF Len(fetches) >= 2 /\ fetches[2] = Fetch(call.urls[n], "selenium", TRUE)
        THEN <<"selenium">>
        ELSE <<>>

\* What C28 says of the result at position n, other than of the browser.
ResultAsClaimed(n) ==
    /\ ret.results[n].url = call.urls[n]
    /\ ret.results[n].method = DeliveredBy(n)
    /\ ret.results[n].error # <<>> => ret.results[n].companies = {}

ResultsAsClaimed ==
    /\ Len(ret.results) = ret.i - 1
    /\ \A n \in 1..Len(ret.results) : ResultAsClaimed(n)
    /\ pc = "done" => Len(ret.results) = Len(call.urls)

\* The statement of C28 as it was made: no browser fetch at all without a
\* failed plain HTTP fetch of the same URL before it.
C28_BrowserOnlyAfterFailure ==
    /\ \A n \in 1..Len(ret.fetches) :
           AfterFailedRequests(ret.fetches[n], {"selenium", "driver.get"})
    /\ ResultsAsClaimed

\* C28: scrape_with_selenium fetches the main page or the portfolio page
\* only right after the plain HTTP fetch of the same URL has failed, while
\* the page behind a linked image is opened in the browser without a plain
\* HTTP fetch, and only when OCR is in use and a driver exists; method names
\* the strategy that delivered the main page and is None only when both
\* failed; with an error the companies are empty; scrape_urls has one result
\* for every URL, in the order of the URLs.
C28_FallbackForPages ==
    /\ \A n \in 1..Len(ret.fetches) :
           /\ AfterFailedRequests(ret.fetches[n], {"selenium"})
           /\ \A k \in 1..Len(ret.fetches[n]) :
                  ret.fetches[n][k].by = "driver.get" => call.use_ocr /\ call.driver
    /\ ResultsAsClaimed

\* Two URLs are through: the first was delivered by the browser after the
\* plain fetch failed, the second could not be fetched at all, and a page
\* behind an image was opened in the browser.
C28_Witness ==
    /\ pc = "done"
    /\ Len(ret.results) = 2
    /\ ret.results[1].method = <<"selenium">>
    /\ ret.results[2].method = <<>>
    /\ ret.results[2].error # <<>>
    /\ \E k \in 1..Len(ret.fetches[1]) : ret.fetches[1][k].by = "driver.get"
(***************************************************************************)
(* The institutions of the configuration and of analyze_funding_system     *)
(***************************************************************************)
\* CompetitiveFundingPatterns.COMPETITIVE_INSTITUTIONS
COMPETITIVE_INSTITUTIONS == <<
    \* 日本学術振興会
    <<"u65E5", "u672C", "u5B66", "u8853", "u632F", "u8208", "u4F1A">>,
    \* JST
    <<"J", "S", "T">>,
    \* 国立研究開発法人科学技術振興機構
    <<"u56FD", "u7ACB", "u7814", "u7A76", "u958B", "u767A", "u6CD5", "u4EBA",
      "u79D1", "u5B66", "u6280", "u8853", "u632F", "u8208", "u6A5F", "u69CB">>,
    \* NEDO
    <<"N", "E", "D", "O">>,
    \* 国立研究開発法人新エネルギー・産業技術総合開発機構
    <<"u56FD", "u7ACB", "u7814", "u7A76", "u958B", "u767A", "u6CD5", "u4EBA",
      "u65B0", "u30A8", "u30CD", "u30EB", "u30AE", "u30FC", "u30FB", "u7523",
      "u696D", "u6280", "u8853", "u7DCF", "u5408", "u958B", "u767A", "u6A5F",
      "u69CB">>,
    \* 独立行政法人新エネルギー・産業技術総合開発機構
    <<"u72EC", "u7ACB", "u884C", "u653F", "u6CD5", "u4EBA", "u65B0", "u30A8",
      "u30CD", "u30EB", "u30AE", "u30FC", "u30FB", "u7523", "u696D", "u6280",
      "u8853", "u7DCF", "u5408", "u958B", "u767A", "u6A5F", "u69CB">>,
    \* 鉄鋼環境基金
    <<"u9244", "u92FC", "u74B0", "u5883", "u57FA", "u91D1">>,
    \* 文部科学省
    <<"u6587", "u90E8", "u79D1", "u5B66", "u7701">>,
    \* 厚生労働省
    <<"u539A", "u751F", "u52B4", "u50CD", "u7701">>,
    \* 経済産業省
    <<"u7D4C", "u6E08", "u7523", "u696D", "u7701">>
>>

\* The local lists of analyze_funding_system.
institutions == <<
    \* 日本学術振興会
    <<"u65E5", "u672C", "u5B66", "u8853", "u632F", "u8208", "u4F1A">>,
    \* JST
    <<"J", "S", "T">>,
    \* 国立研究開発法人科学技術振興機構
    <<"u56FD", "u7ACB", "u7814", "u7A76", "u958B", "u767A", "u6CD5", "u4EBA",
      "u79D1", "u5B66", "u6280", "u8853", "u632F", "u8208", "u6A5F", "u69CB">>,
    \* NEDO
    <<"N", "E", "D", "O">>,
    \* 国立研究開発法人新エネルギー・産業技術総合開発機構
    <<"u56FD", "u7ACB", "u7814", "u7A76", "u958B", "u767A", "u6CD5", "u4EBA",
      "u65B0", "u30A8", "u30CD", "u30EB", "u30AE", "u30FC", "u30FB", "u7523",
      "u696D", "u6280", "u8853", "u7DCF", "u5408", "u958B", "u767A", "u6A5F",
      "u69CB">>,
    \* 独立行政法人新エネルギー・産業技術総合開発機構
    <<"u72EC", "u7ACB", "u884C", "u653F", "u6CD5", "u4EBA", "u65B0", "u30A8",
      "u30CD", "u30EB", "u30AE", "u30FC", "u30FB", "u7523", "u696D", "u6280",
      "u8853", "u7DCF", "u5408", "u958B", "u767A", "u6A5F", "u69CB">>,
    \* 鉄鋼環境基金
    <<"u9244", "u92FC", "u74B0", "u5883", "u57FA", "u91D1">>,
    \* 文部科学省
    <<"u6587", "u90E8", "u79D1", "u5B66", "u7701">>,
    \* 厚生労働省
    <<"u539A", "u751F", "u52B4", "u50CD", "u7701">>,
    \* 経済産業省
    <<"u7D4C", "u6E08", "u7523", "u696D", "u7701">>
>>

project_types == <<
    \* 科学研究費助成事業
    <<"u79D1", "u5B66", "u7814", "u7A76", "u8CBB", "u52A9", "u6210", "u4E8B",
      "u696D">>,
    \* 科学研究費
    <<"u79D1", "u5B66", "u7814", "u7A76", "u8CBB">>,
    \* 科学研究費補助金
    <<"u79D1", "u5B66", "u7814", "u7A76", "u8CBB", "u88DC", "u52A9", "u91D1">>,
    \* 基盤研究
    <<"u57FA", "u76E4", "u7814", "u7A76">>,
    \* 若手研究
    <<"u82E5", "u624B", "u7814", "u7A76">>,
    \* 萌芽研究
    <<"u840C", "u82BD", "u7814", "u7A76">>,
    \* 挑戦的研究
    <<"u6311", "u6226", "u7684", "u7814", "u7A76">>,
    \* 特別推進研究
    <<"u7279", "u5225", "u63A8", "u9032", "u7814", "u7A76">>,
    \* 新学術領域研究
    <<"u65B0", "u5B66", "u8853", "u9818", "u57DF", "u7814", "u7A76">>,
    \* 特別研究員
    <<"u7279", "u5225", "u7814", "u7A76", "u54E1">>,
    \* 地熱発電技術研究開発
    <<"u5730", "u71B1", "u767A", "u96FB", "u6280", "u8853", "u7814", "u7A76",
      "u958B", "u767A">>,
    \* 新エネルギーベンチャー技術革新事業
    <<"u65B0", "u30A8", "u30CD", "u30EB", "u30AE", "u30FC", "u30D9", "u30F3",
      "u30C1", "u30E3", "u30FC", "u6280", "u8853", "u9769", "u65B0", "u4E8B",
      "u696D">>,
    \* 環境研究
    <<"u74B0", "u5883", "u7814", "u7A76">>
>>

research_categories == <<
    \* 基盤研究(A)
    <<"u57FA", "u76E4", "u7814", "u7A76", "(", "A", ")">>,
    \* 基盤研究(B)
    <<"u57FA", "u76E4", "u7814", "u7A76", "(", "B", ")">>,
    \* 基盤研究(C)
    <<"u57FA", "u76E4", "u7814", "u7A76", "(", "C", ")">>,
    \* 若手研究(A)
    <<"u82E5", "u624B", "u7814", "u7A76", "(", "A", ")">>,
    \* 若手研究(B)
    <<"u82E5", "u624B", "u7814", "u7A76", "(", "B", ")">>,
    \* 若手研究(C)
    <<"u82E5", "u624B", "u7814", "u7A76", "(", "C", ")">>,
    \* 萌芽研究
    <<"u840C", "u82BD", "u7814", "u7A76">>,
    \* 挑戦的萌芽研究
    <<"u6311", "u6226", "u7684", "u840C", "u82BD", "u7814", "u7A76">>,
    \* 特別推進研究
    <<"u7279", "u5225", "u63A8", "u9032", "u7814", "u7A76">>,
    \* 新学術領域研究
    <<"u65B0", "u5B66", "u8853", "u9818", "u57DF", "u7814", "u7A76">>,
    \* 特別研究員
    <<"u7279", "u5225", "u7814", "u7A76", "u54E1">>
>>

\* for entry in list: if entry in funding_system: result[key] = entry; break
RECURSIVE FirstContained(_, _, _)
FirstContained(funding_system, list, k) ==
    IF k > Len(list) THEN <<>>
    ELSE IF Contains(funding_system, list[k]) THEN <<list[k]>>
    ELSE FirstContained(funding_system, list, k + 1)

\* The dict with the key when a value was found, the empty dict otherwise.
FoundUnder(key, found) ==
    IF found = <<>> THEN EmptyDict ELSE [k \in {key} |-> found[1]]

analyze_funding_system(funding_system) ==
    update(update(FoundUnder("institution",
                             FirstContained(funding_system, institutions, 1)),
                  FoundUnder("project_type",
                             FirstContained(funding_system, project_types, 1))),
           FoundUnder("research_category",
                      FirstContained(funding_system, research_categories, 1)))

\* Funding texts for the analyser: every institution of its list or none,
\* alone, after another institution, and before other words.
AnalyzerTexts ==
    {a \o m \o z :
        a \in {<<>>, SteelFund \o <<" ">>},
        m \in {institutions[k] : k \in 1..Len(institutions)} \cup {OwnResearch, <<>>},
        z \in {<<>>, <<" ">> \o KibanC}}

\* The text is analysed, and then the classifier is given an entry of the
\* configuration and, when the analyser found an institution, that one; the
\* funding text and the project type given with them fire no other gate.
InitInstitutions ==
    /\ pc = "analyze_funding_system"
    /\ call \in [text : AnalyzerTexts,
                 entry : 1..Len(COMPETITIVE_INSTITUTIONS),
                 funding_system : {None, <<>>, OwnResearch},
                 project_type : {None, InHouseResearch}]
    /\ ret = <<>>
    /\ NoCrawl

AnalyzeFundingSystem ==
    /\ pc = "analyze_funding_system"
    /\ ret' = [funding_details |-> analyze_funding_system(call.text)]
    /\ pc' = "classify"
    /\ UNCHANGED <<call, crawl_vars>>

ClassifyInstitutions ==
    /\ pc = "classify"
    /\ "funding_details" \in DOMAIN ret
    /\ ret' = [funding_details |-> ret.funding_details,
               of_entry |-> is_competitive_funding_by_html_structure(
                                call.funding_system,
                                COMPETITIVE_INSTITUTIONS[call.entry],
                                call.project_type),
               of_analysis |->
                   IF "institution" \in DOMAIN ret.funding_details
                   THEN <<is_competitive_funding_by_html_structure(
                              call.funding_system,
                              ret.funding_details.institution,
                              call.project_type)>>
                   ELSE <<>>]
    /\ pc' = "done"
    /\ UNCHANGED <<call, crawl_vars>>

NextInstitutions == AnalyzeFundingSystem \/ ClassifyInstitutions

SpecInstitutions == InitInstitutions /\ [][NextInstitutions]_vars

\* C29: the classifier gives True for every entry of
\* COMPETITIVE_INSTITUTIONS and for every institution that
\* analyze_funding_system returns, passed as the institution.
C29_InstitutionsAccepted ==
    pc = "done" =>
        /\ ret.of_entry
        /\ ret.of_analysis # <<>> => ret.of_analysis[1]
(***************************************************************************)
(* The division of find_matching_vc                                        *)
(***************************************************************************)
\* The corpus entries for which the loop, when it reaches them, computes the
\* similarity: a partial match that is not an exact one.
ScoredEntries ==
    {k \in 1..Len(call.vc_list) :
        /\ normalize_vc_name(call.vc_name) # normalize_vc_name(call.vc_list[k].vc_name)
        /\ PartialMatch(normalize_vc_name(call.vc_name),
                        normalize_vc_name(call.vc_list[k].vc_name))}

\* C30: find_matching_vc ends without ZeroDivisionError, and for every
\* corpus entry whose similarity is computed the union of the character
\* sets of the two normalized names is not empty.
C30_NoDivisionByZero ==
    pc = "done" =>
        /\ ret.exc = ""
        /\ \A k \in ScoredEntries :
               CharSet(normalize_vc_name(call.vc_name))
                   \cup CharSet(normalize_vc_name(call.vc_list[k].vc_name)) # {}

\* A candidate that normalizes to the empty string has met an entry that
\* normalizes to the empty string too and, in another position, an entry
\* with which its similarity was computed.
C30_Witness ==
    /\ pc = "done"
    /\ normalize_vc_name(call.vc_name) = <<>>
    /\ ScoredEntries # {}
    /\ \E k \in 1..Len(call.vc_list) :
           /\ k > 1
           /\ normalize_vc_name(call.vc_list[k].vc_name) = <<>>
           /\ ret = Returned(call.vc_list[k])

====
